---- MODULE Spec2Model ----
(***************************************************************************)
(* Employee data management: the record store (employees table), the       *)
(* employee service (createData, updateData, deleteData, getDetailData,    *)
(* importData) and the welcome-email dispatch of the email service.        *)
(*                                                                         *)
(* importData is an async function: it is modelled as a process whose      *)
(* steps are cut at its await points (the findOne lookup and the save      *)
(* inside createData), so that other requests interleave exactly where the *)
(* event loop lets them.                                                   *)
(***************************************************************************)
EXTENDS Integers, Sequences, FiniteSets, TLC

(***************************************************************************)
(* Bounds of the model.                                                    *)
(***************************************************************************)
MaxRows == 2      \* longest batch handed to importData
MaxRequests == 1  \* single-record requests served beside the import
MaxRaceRows == 1  \* longest batch of each of two concurrent imports
MaxHttp == 3      \* HTTP requests received
MaxQueryLen == 2  \* longest name argument of getAllData, in characters
MaxMailRows == 2  \* longest batch of an upload followed to its notification
MaxTicks == 1     \* scheduled job callbacks run
MaxUploadRows == 2  \* longest upload handed to an import endpoint
MaxSignals == 2    \* SIGINT / SIGTERM signals received

(***************************************************************************)
(* Program constants.                                                      *)
(***************************************************************************)
MaxNameLen == 100
MaxEmailLen == 100
MaxPhoneLen == 15
RowOffset == 2

\* null / undefined / absent column of a row or record
NULL == "<null>"

MSG_REQUIRED == "Name and email are required"
MSG_EXISTS == "Email already exists"
MSG_UNKNOWN == "Unknown error"

(***************************************************************************)
(* Values the rows, payloads and store faults are drawn from.              *)
(***************************************************************************)
\* 101 characters: one over the name bound
LongName == "Maximiliana Alexandrina Konstantinopolitanska Wolfeschlegelsteinhausenbergerdorff Featherstonehaugh I"
\* 16 characters: one over the phone bound
LongPhone == "0812345678901234"

EmailA == "a@x.com"
EmailB == "b@x.com"
BadEmail == "dan-at-x.com"

\* the addresses validator.js accepts, among the ones used here
WellFormedEmails == {EmailA, EmailB}

Row(n, e, p) == [name |-> n, email |-> e, phoneNumber |-> p]

Rows ==
    { Row(NULL, EmailA, NULL),          \* name column missing
      Row("Ann", "", NULL),             \* email empty
      Row("Ann", EmailA, NULL),         \* valid
      Row("Bob", EmailA, ""),           \* valid, same email, empty optional column
      Row(LongName, EmailA, NULL),      \* name over its length bound
      Row("Dan", BadEmail, LongPhone) } \* email syntax, phone over its length bound

RECURSIVE SeqsUpTo(_, _)
SeqsUpTo(S, n) ==
    IF n = 0 THEN {<<>>}
    ELSE LET shorter == SeqsUpTo(S, n - 1)
         IN shorter \cup {Append(s, x) : s \in {t \in shorter : Len(t) = n - 1}, x \in S}

Batches == SeqsUpTo(Rows, MaxRows)

\* messages of the errors a store call can fail with when the connection
\* breaks; the second is an error that carries an empty message
StoreFaults == {"Connection terminated unexpectedly", ""}

ImportIds == {"imp1"}

(***************************************************************************)
(* JavaScript helpers.                                                     *)
(***************************************************************************)
\* !v : undefined, null and the empty string are falsy
Falsy(v) == v = NULL \/ v = ""

\* v || null
OrNull(v) == IF Falsy(v) THEN NULL ELSE v

\* Array.prototype.join
RECURSIVE Join(_, _)
Join(seq, sep) ==
    IF seq = <<>> THEN ""
    ELSE IF Len(seq) = 1 THEN seq[1]
    ELSE seq[1] \o sep \o Join(Tail(seq), sep)

RECURSIVE MapJoin(_, _)
MapJoin(seqs, sep) ==
    IF seqs = <<>> THEN <<>> ELSE <<Join(seqs[1], sep)>> \o MapJoin(Tail(seqs), sep)

\* mutant of ErrorText: the fallback for an empty message is lost
ErrorText_NoFallback(message) == message

\* error.message || "Unknown error"
ErrorText(message) == IF Falsy(message) THEN MSG_UNKNOWN ELSE message

(***************************************************************************)
(* The record store: the employees table of EntityEmployee.  A store is a  *)
(* function from the ids in use to records; nextId is the value its        *)
(* sequence hands out next.                                                *)
(***************************************************************************)
Emails(s) == {s[k].email : k \in DOMAIN s}

\* mutant of FindOneByEmail: the lookup never finds a record
FindOneByEmail_Never(s, email) == 0

\* repository.findOne({ where: { email } }): the id of the record, 0 for null
FindOneByEmail(s, email) ==
    IF \E k \in DOMAIN s : s[k].email = email
    THEN CHOOSE k \in DOMAIN s : s[k].email = email
    ELSE 0

\* mutant of ConstraintError: the email column is not declared unique
ConstraintError_NoUnique(s, self, rec) ==
    IF rec.name = NULL THEN "null value in column \"name\" violates not-null constraint"
    ELSE IF rec.email = NULL THEN "null value in column \"email\" violates not-null constraint"
    ELSE IF Len(rec.name) > MaxNameLen \/ Len(rec.email) > MaxEmailLen
         THEN "value too long for type character varying(100)"
    ELSE IF rec.phoneNumber # NULL /\ Len(rec.phoneNumber) > MaxPhoneLen
         THEN "value too long for type character varying(15)"
    ELSE NULL

\* the constraint an INSERT or UPDATE of the row `rec` under id `self`
\* violates, as the message of the QueryFailedError; NULL when it is accepted
ConstraintError(s, self, rec) ==
    IF rec.name = NULL THEN "null value in column \"name\" violates not-null constraint"
    ELSE IF rec.email = NULL THEN "null value in column \"email\" violates not-null constraint"
    ELSE IF Len(rec.name) > MaxNameLen \/ Len(rec.email) > MaxEmailLen
         THEN "value too long for type character varying(100)"
    ELSE IF rec.phoneNumber # NULL /\ Len(rec.phoneNumber) > MaxPhoneLen
         THEN "value too long for type character varying(15)"
    ELSE IF \E k \in DOMAIN s : k # self /\ s[k].email = rec.email
         THEN "duplicate key value violates unique constraint"
    ELSE NULL

\* mutant of Inserted: the row is not written
Inserted_Lost(s, nid, rec) == s

\* the store after INSERT of rec under the id nid
Inserted(s, nid, rec) ==
    [k \in DOMAIN s \cup {nid} |-> IF k = nid THEN rec ELSE s[k]]

\* the store after DELETE of id
Deleted(s, id) == [k \in DOMAIN s \ {id} |-> s[k]]

\* mutant of Patched: the row is replaced, columns not in the payload are blanked
Patched_Replaced(rec, payload) ==
    [f \in DOMAIN rec |-> IF f \in DOMAIN payload THEN payload[f] ELSE ""]

\* the row of id with the columns of payload set
Patched(rec, payload) ==
    [f \in DOMAIN rec |-> IF f \in DOMAIN payload THEN payload[f] ELSE rec[f]]

\* getDetailData(id): <<record>>, or <<>> for null
GetDetailData(s, id) == IF id \in DOMAIN s THEN <<s[id]>> ELSE <<>>

(***************************************************************************)
(* class-validator on CreateEmployeeRequest.  Each operator gives the      *)
(* messages of the constraints a property violates, in the order the       *)
(* decorators register them.                                               *)
(***************************************************************************)
LengthMessage(prop, v, min, max) ==
    IF v = NULL \/ Len(v) < min
    THEN IF min > 0
         THEN <<prop \o " must be longer than or equal to " \o ToString(min) \o " characters">>
         ELSE <<prop \o " must be shorter than or equal to " \o ToString(max) \o " characters">>
    ELSE IF Len(v) > max
    THEN <<prop \o " must be shorter than or equal to " \o ToString(max) \o " characters">>
    ELSE <<>>

IsStringMessage(prop, v) ==
    IF v = NULL THEN <<prop \o " must be a string">> ELSE <<>>

IsNotEmptyMessage(prop, v) ==
    IF Falsy(v) THEN <<prop \o " should not be empty">> ELSE <<>>

IsEmailMessage(prop, v) ==
    IF v \in WellFormedEmails THEN <<>> ELSE <<prop \o " must be an email">>

NameConstraints(v) ==
    LengthMessage("name", v, 1, MaxNameLen) \o IsStringMessage("name", v)
        \o IsNotEmptyMessage("name", v)

EmailConstraints(v) ==
    LengthMessage("email", v, 1, MaxEmailLen) \o IsEmailMessage("email", v)
        \o IsNotEmptyMessage("email", v)

\* @IsOptional(): null and undefined skip the other constraints
PhoneConstraints(v) ==
    IF v = NULL THEN <<>>
    ELSE LengthMessage("phoneNumber", v, 0, MaxPhoneLen) \o IsStringMessage("phoneNumber", v)

\* mutant of Validate: no constraint is checked
Validate_Nothing(dto) == <<>>

\* validate(dto): one entry per property with a violated constraint
Validate(dto) ==
    SelectSeq(<<NameConstraints(dto.name), EmailConstraints(dto.email),
                PhoneConstraints(dto.phoneNumber)>>,
              LAMBDA c : c # <<>>)

\* errors.map((e) => Object.values(e.constraints || {})).join(", ")
\* (join renders each inner array with "," between its items)
ValidationText(errors) == Join(MapJoin(errors, ","), ", ")

\* plainToClass(CreateEmployeeRequest, {...}) of importData
ToDto(rowData) ==
    [name |-> rowData.name, email |-> rowData.email,
     phoneNumber |-> OrNull(rowData.phoneNumber)]

(***************************************************************************)
(* importData's accumulator (result) and its per-row steps.                *)
(***************************************************************************)
EmptyResult == [imported |-> 0, failed |-> 0, errors |-> <<>>]

\* mutant of RowNumber: the header row is not counted
RowNumber_NoHeader(i) == i + 1

\* const rowNumber = i + 2
RowNumber(i) == i + RowOffset

\* mutant of RequiredMissing: the email is not tested
RequiredMissing_NameOnly(rowData) == Falsy(rowData.name)

\* !rowData.name || !rowData.email
RequiredMissing(rowData) == Falsy(rowData.name) \/ Falsy(rowData.email)

\* mutant of RecordFailure: the failure is counted but not pushed
RecordFailure_NoPush(res, rowNumber, rowData, reason) == [res EXCEPT !.failed = @ + 1]

\* result.failed++; result.errors.push({ row, data, error })
RecordFailure(res, rowNumber, rowData, reason) ==
    [res EXCEPT !.failed = @ + 1,
                !.errors = Append(@, [row |-> rowNumber, data |-> rowData, error |-> reason])]

\* mutant of RecordImported: the row is not counted
RecordImported_NotCounted(res) == res

\* result.imported++
RecordImported(res) == [res EXCEPT !.imported = @ + 1]

\* mutant of WelcomeDispatched: the readiness gates are missing
WelcomeDispatched_Ungated(ready) == TRUE

\* emailService.isReady() of createData, then the isConfigured test of sendEmail:
\* whether the welcome message is handed to the transport
WelcomeDispatched(ready) == ready

VARIABLES
    store,        \* the employees table: id -> record
    nextId,       \* next value of the id sequence
    isConfigured, \* EmailService.isConfigured
    welcomeSent,  \* record id -> welcome messages handed to the mail transport
    pc,           \* importData: where each invocation stands
    data,         \* importData: its argument
    idx,          \* importData: the loop variable i
    result,       \* importData: the accumulator it returns
    dto,          \* importData: the validated candidate createData is saving
    cur,          \* history: store calls and sends of the row being processed
    log,          \* history: one entry per processed row
    foreign,      \* history: another request changed the store while the import ran
    served,       \* history: single-record requests served so far
    reply,        \* HTTP layer: the response last written, with its request
    put,          \* HTTP layer: the PUT request between its two store calls
    table,        \* name search: the name column of the employees table
    query,        \* name search: the name argument of getAllData
    found,        \* name search: the names of the records getAllData returned
    adminEmail,   \* whether ADMIN_EMAIL is set
    adminSent,    \* the messages to the admin handed to the mail transport, in order
    settled,      \* the sends the mail transport has resolved or rejected
    smtp,         \* EmailService: the SMTP settings, the transporter, its verification
    cron,         \* CronJobService: the registry (jobs) and the tasks scheduled
    proc,         \* the server process: HTTP server, database connection, shutdown
    ticks         \* history: scheduled jobs run so far

httpVars == <<reply, put>>
searchVars == <<table, query, found>>
lifeVars == <<cron, proc>>
mailVars == <<adminEmail, adminSent, settled, ticks, smtp, lifeVars>>

vars == <<store, nextId, isConfigured, welcomeSent, pc, data, idx, result, dto,
          cur, log, foreign, served, httpVars, searchVars, mailVars>>

NoRow == Row(NULL, NULL, NULL)
\* history of one row: store calls issued (lookups, inserts), whether a record
\* with the row's email was in the store when the lookup ran (present), the id
\* of the record the row created (newId, 0 for none), messages handed to the
\* mail transport (sends) and the sender's readiness at the save (ready),
\* whether the connection broke (fault), the message of the error a store
\* call threw (thrown), store calls issued and not yet resolved or rejected
\* (pending)
NoCalls == [lookups |-> 0, present |-> FALSE, inserts |-> 0, newId |-> 0, sends |-> 0,
            ready |-> FALSE, fault |-> FALSE, thrown |-> NULL, pending |-> 0]

\* history: a store call is issued; the call in flight resolves or rejects
Issued(calls) == [calls EXCEPT !.pending = @ + 1]
Settled(calls) == [calls EXCEPT !.pending = @ - 1]

\* no request has been answered, no PUT is under way
NoReply == [route |-> "none"]
NoPut == [stage |-> "idle"]
HttpIdle == reply = NoReply /\ put = NoPut

\* no search has been made; no admin address, nothing handed to the transport
SearchIdle == table = {} /\ query = <<>> /\ found = <<>>
MailIdle == adminEmail = FALSE /\ adminSent = <<>> /\ settled = {} /\ ticks = 0

\* the SMTP settings the environment holds (host, user, pass: set or not),
\* and the sender before its constructor has run
Settings == [host : BOOLEAN, user : BOOLEAN, pass : BOOLEAN]
NewSender(env) ==
    [host |-> env.host, user |-> env.user, pass |-> env.pass,
     stage |-> "new", transporter |-> FALSE, verify |-> "none"]

\* the sender once its constructor has run, as far as its readiness flag
\* tells: with the flag set, every setting is present, the transporter was
\* created and its verification is under way
Constructed(flag) ==
    [host |-> flag, user |-> flag, pass |-> flag,
     stage |-> "built", transporter |-> flag, verify |-> IF flag THEN "pending" ELSE "none"]

(***************************************************************************)
(* The scheduled-job registry of CronJobService.  `jobs` is the Map from   *)
(* job name to task, a task being named by its position in `tasks`, which  *)
(* holds for every task cron.schedule created whether it is running.       *)
(* `stopped` and `last` are history: the names stopJob or stopAllJobs      *)
(* removed, and the last call with what it returned.                       *)
(***************************************************************************)
CronJobs == {"daily-report", "birthday-reminder", "weekly-backup-reminder"}

NewCronService ==
    [stage |-> "new", jobs |-> <<>>, tasks |-> <<>>, stopped |-> {}, last |-> [op |-> "none"]]

\* cron.schedule(...) followed by this.jobs.set(jobName, task): the task
\* starts running, and the name now maps to it
Scheduled(c, jobName) ==
    [c EXCEPT !.tasks = Append(@, "running"),
              !.jobs = [n \in DOMAIN c.jobs \cup {jobName} |->
                           IF n = jobName THEN Len(c.tasks) + 1 ELSE c.jobs[n]]]

\* initializeJobs()
InitializeJobs(c) ==
    [Scheduled(Scheduled(Scheduled(c, "daily-report"), "birthday-reminder"),
               "weekly-backup-reminder") EXCEPT !.stage = "initialized"]

\* getActiveJobs()
GetActiveJobs(c) == DOMAIN c.jobs

\* mutant of Unregistered: the name stays in the registry
Unregistered_Kept(registry, jobName) == registry

\* this.jobs.delete(jobName)
Unregistered(registry, jobName) == [n \in DOMAIN registry \ {jobName} |-> registry[n]]

\* job.stop() / job.start() for the tasks ts
TasksSet(tasks, ts, status) == [t \in DOMAIN tasks |-> IF t \in ts THEN status ELSE tasks[t]]

\* stopJob(jobName): the service afterwards and the value returned
StopJobOutcome(c, jobName) ==
    IF jobName \in DOMAIN c.jobs
    THEN [service |-> [c EXCEPT !.tasks = TasksSet(@, {c.jobs[jobName]}, "stopped"),
                                !.jobs = Unregistered(@, jobName),
                                !.stopped = @ \cup {jobName}],
          returned |-> TRUE]
    ELSE [service |-> c, returned |-> FALSE]

\* restartJob(jobName)
RestartJobOutcome(c, jobName) ==
    IF jobName \in DOMAIN c.jobs
    THEN [service |-> [c EXCEPT !.tasks = TasksSet(@, {c.jobs[jobName]}, "running")],
          returned |-> TRUE]
    ELSE [service |-> c, returned |-> FALSE]

\* stopAllJobs(): every task of the registry is stopped, the registry cleared
StopAllJobsOutcome(c) ==
    [c EXCEPT !.tasks = TasksSet(@, {c.jobs[n] : n \in DOMAIN c.jobs}, "stopped"),
              !.jobs = <<>>,
              !.stopped = @ \cup DOMAIN c.jobs]

(***************************************************************************)
(* The server process, once startServer has run: the jobs are registered,  *)
(* the HTTP server listens, the database connection is open.  `callbacks`  *)
(* holds one entry per call of server.close, `events` is history: what     *)
(* happened, in order.                                                     *)
(***************************************************************************)
Serving ==
    /\ cron = InitializeJobs(NewCronService)
    /\ proc = [server |-> "listening", db |-> "connected", callbacks |-> <<>>,
               events |-> <<>>, exited |-> <<>>]

Init ==
    /\ store = <<>>
    /\ nextId = 1
    /\ isConfigured \in BOOLEAN
    /\ smtp = Constructed(isConfigured)
    /\ Serving
    /\ welcomeSent = <<>>
    /\ pc = [p \in ImportIds |-> "idle"]
    /\ data = [p \in ImportIds |-> <<>>]
    /\ idx = [p \in ImportIds |-> 0]
    /\ result = [p \in ImportIds |-> EmptyResult]
    /\ dto = [p \in ImportIds |-> NoRow]
    /\ cur = [p \in ImportIds |-> NoCalls]
    /\ log = [p \in ImportIds |-> <<>>]
    /\ foreign = [p \in ImportIds |-> FALSE]
    /\ served = 0
    /\ HttpIdle
    /\ SearchIdle
    /\ MailIdle

\* one more welcome message for the record id
Sent(ws, id) ==
    [k \in DOMAIN ws \cup {id} |-> IF k \in DOMAIN ws THEN ws[k] + (IF k = id THEN 1 ELSE 0) ELSE 1]

(***************************************************************************)
(* The mail transport.  A message handed to it (sendMail) stays with it    *)
(* until the transport resolves or rejects the send, if it ever does.      *)
(***************************************************************************)
\* mutant of AdminDispatched: the readiness gates are missing
AdminDispatched_Ungated(admin, ready) == admin

\* `adminEmail && emailService.isReady()` of the caller, then the
\* isConfigured test of sendEmail: whether a message to the admin is handed
\* to the transport
AdminDispatched(admin, ready) == admin /\ ready

\* the messages handed to the transport, and those it has not settled
HandedOver ==
    {[to |-> "employee", ref |-> id] : id \in DOMAIN welcomeSent}
    \cup {[to |-> "admin", ref |-> i] : i \in 1..Len(adminSent)}

InTransport == HandedOver \ {[to |-> s.to, ref |-> s.ref] : s \in settled}

\* mutant of SendAwaited: the caller awaits the welcome send of each record
\* the invocation created
SendAwaited_Blocking(p) ==
    \E k \in 1..Len(log[p]) :
        log[p][k].sends > 0 /\ [to |-> "employee", ref |-> log[p][k].newId] \in InTransport

\* createData calls sendWelcomeEmail(...).catch(...) without await: the
\* caller never waits for a send
SendAwaited(p) == FALSE

\* mutant of AfterSendError: a rejected send is handed to the transport again
AfterSendError_Retry(ws, id) == Sent(ws, id)

\* the catch block of sendEmail: the error is logged and false is returned
AfterSendError(ws, id) == ws

(***************************************************************************)
(* createData(payload): the outcomes of save() followed by the welcome     *)
(* dispatch, from the current state, for a sender whose readiness is       *)
(* `ready`.  A failed save throws before the dispatch; the dispatch itself *)
(* is not awaited and cannot throw.                                        *)
(***************************************************************************)
\* mutant of CreateDataWith: the welcome message is dispatched before the save
CreateDataWith_SendFirst(payload, ready) ==
    LET send == WelcomeDispatched(ready)
        handed == IF send THEN Sent(welcomeSent, nextId) ELSE welcomeSent
        thrown(m, broken) ==
            [ok |-> FALSE, fault |-> broken, message |-> m, id |-> 0, store |-> store,
             nextId |-> nextId, welcomeSent |-> handed, sends |-> IF send THEN 1 ELSE 0]
        violated == ConstraintError(store, nextId, payload)
    IN  {thrown(m, TRUE) : m \in StoreFaults}
        \cup (IF violated # NULL THEN {thrown(violated, FALSE)}
              ELSE {[ok |-> TRUE, fault |-> FALSE, message |-> "", id |-> nextId,
                     store |-> Inserted(store, nextId, payload),
                     nextId |-> nextId + 1,
                     welcomeSent |-> handed,
                     sends |-> IF send THEN 1 ELSE 0]})

CreateDataWith(payload, ready) ==
    LET thrown(m, broken) ==
            [ok |-> FALSE, fault |-> broken, message |-> m, id |-> 0, store |-> store,
             nextId |-> nextId, welcomeSent |-> welcomeSent, sends |-> 0]
        violated == ConstraintError(store, nextId, payload)
        send == WelcomeDispatched(ready)
    IN  {thrown(m, TRUE) : m \in StoreFaults}
        \cup (IF violated # NULL THEN {thrown(violated, FALSE)}
              ELSE {[ok |-> TRUE, fault |-> FALSE, message |-> "", id |-> nextId,
                     store |-> Inserted(store, nextId, payload),
                     nextId |-> nextId + 1,
                     welcomeSent |-> IF send THEN Sent(welcomeSent, nextId) ELSE welcomeSent,
                     sends |-> IF send THEN 1 ELSE 0]})

CreateDataOutcomes(payload) == CreateDataWith(payload, isConfigured)

(***************************************************************************)
(* importData(data)                                                        *)
(***************************************************************************)
\* the call: result is initialised and the loop is entered
ImportStart(p, batch) ==
    /\ pc[p] = "idle"
    /\ pc' = [pc EXCEPT ![p] = "loop"]
    /\ data' = [data EXCEPT ![p] = batch]
    /\ idx' = [idx EXCEPT ![p] = 0]
    /\ result' = [result EXCEPT ![p] = EmptyResult]
    /\ dto' = [dto EXCEPT ![p] = NoRow]
    /\ cur' = [cur EXCEPT ![p] = NoCalls]
    /\ log' = [log EXCEPT ![p] = <<>>]
    /\ foreign' = [foreign EXCEPT ![p] = FALSE]
    /\ UNCHANGED <<store, nextId, isConfigured, welcomeSent, served,
                   httpVars, searchVars, mailVars>>

\* the row ends as failed (a `continue` after recording, or the catch block)
RowFails(p, reason, calls) ==
    /\ result' = [result EXCEPT ![p] =
                      RecordFailure(@, RowNumber(idx[p]), data[p][idx[p] + 1], reason)]
    /\ idx' = [idx EXCEPT ![p] = @ + 1]
    /\ pc' = [pc EXCEPT ![p] = "loop"]
    /\ dto' = [dto EXCEPT ![p] = NoRow]
    /\ log' = [log EXCEPT ![p] = Append(@, calls)]
    /\ cur' = [cur EXCEPT ![p] = NoCalls]

\* mutant of AtLoopHead: the loop goes on while a store call is in flight
AtLoopHead_NoAwait(p) == pc[p] \in {"loop", "lookup", "save"}

\* the invocation is at the head of its for loop: both store calls of the
\* loop body are awaited, so none is in flight then
AtLoopHead(p) == pc[p] = "loop"

\* loop head: return after the last row; otherwise the required-field check,
\* after which the findOne query is issued
ImportNext(p) ==
    /\ AtLoopHead(p)
    /\ ~SendAwaited(p)
    /\ IF idx[p] >= Len(data[p])
       THEN /\ pc' = [pc EXCEPT ![p] = "done"]
            /\ UNCHANGED <<data, idx, result, dto, cur, log>>
       ELSE IF RequiredMissing(data[p][idx[p] + 1])
       THEN /\ RowFails(p, MSG_REQUIRED, cur[p])
            /\ UNCHANGED data
       ELSE /\ pc' = [pc EXCEPT ![p] = "lookup"]
            /\ cur' = [cur EXCEPT ![p] = Issued(@)]
            /\ UNCHANGED <<data, idx, result, dto, log>>
    /\ UNCHANGED <<store, nextId, isConfigured, welcomeSent, foreign, served,
                   httpVars, searchVars, mailVars>>

\* the findOne query resolves or rejects; on a miss the row is validated and
\* createData is called, which issues the save
ImportLookup(p) ==
    /\ pc[p] = "lookup"
    /\ LET rowData == data[p][idx[p] + 1]
           asked == [Settled(cur[p]) EXCEPT !.lookups = @ + 1,
                                            !.present = rowData.email \in Emails(store)]
       IN  \/ \E m \in StoreFaults :
                RowFails(p, ErrorText(m), [asked EXCEPT !.fault = TRUE, !.thrown = m])
           \/ LET existingEmployee == FindOneByEmail(store, rowData.email)
                  employeeDto == ToDto(rowData)
                  errors == Validate(employeeDto)
              IN  IF existingEmployee # 0
                  THEN RowFails(p, MSG_EXISTS, asked)
                  ELSE IF Len(errors) > 0
                  THEN RowFails(p, ValidationText(errors), asked)
                  ELSE /\ pc' = [pc EXCEPT ![p] = "save"]
                       /\ dto' = [dto EXCEPT ![p] = employeeDto]
                       /\ cur' = [cur EXCEPT ![p] = Issued(asked)]
                       /\ UNCHANGED <<idx, result, log>>
    /\ UNCHANGED <<data, store, nextId, isConfigured, welcomeSent, foreign, served,
                   httpVars, searchVars, mailVars>>

\* createData resolves or rejects
ImportSave(p) ==
    /\ pc[p] = "save"
    /\ \E o \in CreateDataOutcomes(dto[p]) :
          LET called == [Settled(cur[p]) EXCEPT !.inserts = @ + 1, !.newId = o.id,
                                                !.sends = @ + o.sends,
                                                !.ready = isConfigured,
                                                !.fault = o.fault,
                                                !.thrown = IF o.ok THEN NULL ELSE o.message]
          IN  /\ store' = o.store
              /\ nextId' = o.nextId
              /\ welcomeSent' = o.welcomeSent
              /\ IF o.ok
                 THEN /\ result' = [result EXCEPT ![p] = RecordImported(@)]
                      /\ idx' = [idx EXCEPT ![p] = @ + 1]
                      /\ pc' = [pc EXCEPT ![p] = "loop"]
                      /\ dto' = [dto EXCEPT ![p] = NoRow]
                      /\ log' = [log EXCEPT ![p] = Append(@, called)]
                      /\ cur' = [cur EXCEPT ![p] = NoCalls]
                 ELSE RowFails(p, ErrorText(o.message), called)
    /\ UNCHANGED <<data, isConfigured, foreign, served, httpVars, searchVars, mailVars>>

(***************************************************************************)
(* The single-record requests, which run between the steps of an import.   *)
(***************************************************************************)
CreatePayloads ==
    { Row("Ann", EmailA, NULL), Row("Cat", EmailB, "0812"), Row(NULL, EmailB, NULL) }

UpdatePayloads == { [email |-> EmailA], [name |-> "Zed", phoneNumber |-> NULL] }

\* the ids requests name: every id handed out so far, and one never handed out
Ids == 1..nextId

\* the request is counted; it is served only while the model's budget lasts
Served == served < MaxRequests /\ served' = served + 1

\* history: a request that changed the store marks every import that has started
Interfered(newStore) ==
    [p \in ImportIds |-> foreign[p] \/ (pc[p] # "idle" /\ newStore # store)]

\* createData(payload) of POST /employees
CreateData(payload) ==
    /\ Served
    /\ \E o \in CreateDataOutcomes(payload) :
          /\ store' = o.store
          /\ nextId' = o.nextId
          /\ welcomeSent' = o.welcomeSent
          /\ foreign' = Interfered(o.store)
    /\ UNCHANGED <<isConfigured, pc, data, idx, result, dto, cur, log,
                   httpVars, searchVars, mailVars>>

\* repository.update(id, payload): whether it resolves, and the store
\* afterwards.  An update without values throws; an id that matches no row
\* updates nothing; an id in the payload is a column like any other, so the
\* row moves to that id unless another row holds it.
UpdateOutcome(id, payload) ==
    IF DOMAIN payload = {} THEN [ok |-> FALSE, store |-> store]
    ELSE IF id \notin DOMAIN store THEN [ok |-> TRUE, store |-> store]
    ELSE LET row == Patched(store[id], payload)
             key == IF "id" \in DOMAIN payload THEN payload.id ELSE id
         IN  IF ConstraintError(store, id, row) # NULL \/ (key # id /\ key \in DOMAIN store)
             THEN [ok |-> FALSE, store |-> store]
             ELSE [ok |-> TRUE, store |-> Inserted(Deleted(store, id), key, row)]

\* updateData(id, payload) of PUT /employees/:id
UpdateData(id, payload) ==
    /\ Served
    /\ LET o == UpdateOutcome(id, payload)
       IN  /\ store' = o.store
           /\ foreign' = Interfered(o.store)
    /\ UNCHANGED <<nextId, isConfigured, welcomeSent, pc, data, idx, result, dto, cur, log,
                   httpVars, searchVars, mailVars>>

\* deleteData(id) of DELETE /employees/:id
DeleteData(id) ==
    /\ Served
    /\ store' = Deleted(store, id)
    /\ foreign' = Interfered(Deleted(store, id))
    /\ UNCHANGED <<nextId, isConfigured, welcomeSent, pc, data, idx, result, dto, cur, log,
                   httpVars, searchVars, mailVars>>

Next ==
    \/ \E p \in ImportIds, batch \in Batches : ImportStart(p, batch)
    \/ \E p \in ImportIds : ImportNext(p)
    \/ \E p \in ImportIds : ImportLookup(p)
    \/ \E p \in ImportIds : ImportSave(p)
    \/ \E payload \in CreatePayloads : CreateData(payload)
    \/ \E id \in Ids, payload \in UpdatePayloads : UpdateData(id, payload)
    \/ \E id \in Ids : DeleteData(id)

Spec == Init /\ [][Next]_vars

(***************************************************************************)
(* Two importData invocations running at once, as two concurrent uploads   *)
(* start them: each runs the same steps, interleaved at the awaits.        *)
(***************************************************************************)
RaceIds == {"imp1", "imp2"}

\* the rows of the two uploads: valid rows that carry one email
RaceRows == {r \in Rows : r.name \in {"Ann", "Bob"} /\ r.email = EmailA}

RaceBatches == SeqsUpTo(RaceRows, MaxRaceRows) \ {<<>>}

RaceInit ==
    /\ store = <<>>
    /\ nextId = 1
    /\ isConfigured \in BOOLEAN
    /\ smtp = Constructed(isConfigured)
    /\ Serving
    /\ welcomeSent = <<>>
    /\ pc = [p \in RaceIds |-> "idle"]
    /\ data = [p \in RaceIds |-> <<>>]
    /\ idx = [p \in RaceIds |-> 0]
    /\ result = [p \in RaceIds |-> EmptyResult]
    /\ dto = [p \in RaceIds |-> NoRow]
    /\ cur = [p \in RaceIds |-> NoCalls]
    /\ log = [p \in RaceIds |-> <<>>]
    /\ foreign = [p \in RaceIds |-> FALSE]
    /\ served = 0
    /\ HttpIdle
    /\ SearchIdle
    /\ MailIdle

RaceNext ==
    \/ \E p \in RaceIds, batch \in RaceBatches : ImportStart(p, batch)
    \/ \E p \in RaceIds : ImportNext(p)
    \/ \E p \in RaceIds : ImportLookup(p)
    \/ \E p \in RaceIds : ImportSave(p)

SpecRace == RaceInit /\ [][RaceNext]_vars

(***************************************************************************)
(* The HTTP layer: the handlers EmployeeController registers for           *)
(* POST /employees, PUT /employees/:id and DELETE /employees/:id, and the  *)
(* ErrorHandler their catch blocks pass a thrown error to.  The routes are *)
(* registered without a validation middleware, so the handler receives the *)
(* body as sent.                                                           *)
(***************************************************************************)
MSG_NOT_FOUND == "Employee not found"
MSG_SERVER_ERROR == "Terjadi kesalahan pada server"
MSG_CREATED == "Employee created successfully"
MSG_UPDATED == "Employee updated successfully"
MSG_DELETED == "Employee deleted successfully"

MSG_RETRIEVED == "Employee retrieved successfully"

RESPONSE_SUCCESS_DESC == "Successful"
RESPONSE_FAILED_DESC == "Failed"

\* new CustomHttpExceptionError(message, statusCode), and any other error;
\* detailError is <<>> when the constructor is given none
HttpException(message, statusCode) ==
    [custom |-> TRUE, statusCode |-> statusCode, message |-> message, detailError |-> <<>>]
OtherError == [custom |-> FALSE]

\* isEmptyObject(data) ? null : (data ?? null), data being <<>> for null
DataOrNull(entity) ==
    IF entity # <<>> /\ DOMAIN entity[1] = {} THEN <<>> ELSE entity

\* sendResponse: the envelope, and the HTTP status it is sent with
SendResponse(desc, statusCode, message, entity) ==
    [status |-> statusCode, responseCode |-> statusCode, responseDesc |-> desc,
     message |-> message, data |-> DataOrNull(entity)]

\* ResponseErrorBuilder, for the plain object ErrorHandler passes it: with
\* no detailError, data is built from the object's name and message
ResponseErrorBuilder(e) ==
    SendResponse(RESPONSE_FAILED_DESC, e.statusCode, e.message,
                 IF e.detailError # <<>> THEN e.detailError
                 ELSE <<[name |-> "Error", message |-> e.message]>>)

\* mutant of ErrorHandler: every error is answered as a server error
ErrorHandler_AlwaysServerError(err) ==
    ResponseErrorBuilder([statusCode |-> 500, message |-> MSG_SERVER_ERROR, detailError |-> <<err>>])

\* ErrorHandler: an error that is no CustomHttpExceptionError is wrapped in
\* one, with status 500 and the error as detailError; the toJSON() of the
\* error object is handed to ResponseErrorBuilder
ErrorHandler(err) ==
    LET errorObject == IF err.custom THEN err
                       ELSE [custom |-> TRUE, statusCode |-> 500, message |-> MSG_SERVER_ERROR,
                             detailError |-> <<err>>]
    IN  ResponseErrorBuilder([statusCode |-> errorObject.statusCode,
                              message |-> errorObject.message,
                              detailError |-> errorObject.detailError])

\* ResponseSuccessBuilder(res, statusCode, message, data)
ResponseSuccess(statusCode, message, entity) ==
    SendResponse(RESPONSE_SUCCESS_DESC, statusCode, message, entity)

\* the response with the request it answers
Answer(request, response) ==
    [f \in DOMAIN request \cup DOMAIN response |->
        IF f \in DOMAIN request THEN request[f] ELSE response[f]]

\* request bodies: those of the single-record requests, a body whose email
\* is no email address, a body that names an id, and an empty body
HttpCreatePayloads == CreatePayloads \cup {Row("Dan", BadEmail, NULL)}
HttpUpdatePayloads == UpdatePayloads \cup {[id |-> 9], <<>>}

\* the ids requests name: those handed out, one never handed out, those in use
HttpIds == Ids \cup DOMAIN store

Received == served < MaxHttp /\ served' = served + 1

\* Requests and responses carry history the properties read: the store when
\* the handler was entered (before) and after its last store call (after),
\* whether it held the id named (known), whether a store call broke on a
\* lost connection (fault).

\* createData of POST /employees
PostEmployee(payload) ==
    /\ Received
    /\ \E o \in CreateDataOutcomes(payload) :
          /\ store' = o.store
          /\ nextId' = o.nextId
          /\ welcomeSent' = o.welcomeSent
          /\ reply' = Answer([route |-> "POST", body |-> payload, before |-> store,
                              after |-> o.store, fault |-> o.fault],
                             IF o.ok THEN ResponseSuccess(201, MSG_CREATED, <<o.store[o.id]>>)
                             ELSE ErrorHandler(OtherError))
    /\ UNCHANGED <<isConfigured, pc, data, idx, result, dto, cur, log, foreign, put,
                   searchVars, mailVars>>

\* updateData of PUT /employees/:id, up to the await of repository.update:
\* the update breaks, is rejected, or is applied
PutUpdate(id, payload) ==
    /\ Received
    /\ put.stage = "idle"
    /\ LET request == [route |-> "PUT", id |-> id, body |-> payload,
                       known |-> id \in DOMAIN store, before |-> store]
           thrown(broken) == Answer(request, [after |-> store, fault |-> broken])
           o == UpdateOutcome(id, payload)
       IN  \/ /\ reply' = Answer(thrown(TRUE), ErrorHandler(OtherError))
              /\ UNCHANGED <<store, put>>
           \/ /\ ~o.ok
              /\ reply' = Answer(thrown(FALSE), ErrorHandler(OtherError))
              /\ UNCHANGED <<store, put>>
           \/ /\ o.ok
              /\ store' = o.store
              /\ put' = Answer([stage |-> "find", updated |-> o.store], request)
              /\ UNCHANGED reply
    /\ UNCHANGED <<nextId, isConfigured, welcomeSent, pc, data, idx, result, dto, cur, log,
                   foreign, searchVars, mailVars>>

\* the request of the PUT under way, as its response reports it
PutRequest(broken) ==
    Answer([f \in DOMAIN put \ {"stage"} |-> put[f]], [after |-> store, fault |-> broken])

\* updateData of PUT /employees/:id, from the await of repository.findOneBy
PutFind ==
    /\ put.stage = "find"
    /\ LET updatedEmployee == GetDetailData(store, put.id)
       IN  reply' = Answer(PutRequest(FALSE),
                           IF updatedEmployee = <<>>
                           THEN ErrorHandler(HttpException(MSG_NOT_FOUND, 404))
                           ELSE ResponseSuccess(200, MSG_UPDATED, updatedEmployee))
    /\ put' = NoPut
    /\ UNCHANGED <<store, nextId, isConfigured, welcomeSent, pc, data, idx, result, dto, cur,
                   log, foreign, served, searchVars, mailVars>>

\* the findOneBy query of updateData rejects
PutFindFails ==
    /\ put.stage = "find"
    /\ reply' = Answer(PutRequest(TRUE), ErrorHandler(OtherError))
    /\ put' = NoPut
    /\ UNCHANGED <<store, nextId, isConfigured, welcomeSent, pc, data, idx, result, dto, cur,
                   log, foreign, served, searchVars, mailVars>>

\* deleteData of DELETE /employees/:id: the DeleteResult is not looked at
DeleteEmployee(id) ==
    /\ Received
    /\ LET request == [route |-> "DELETE", id |-> id, known |-> id \in DOMAIN store,
                       before |-> store]
       IN  \/ /\ reply' = Answer(Answer(request, [after |-> store, fault |-> TRUE]),
                                 ErrorHandler(OtherError))
              /\ UNCHANGED store
           \/ /\ store' = Deleted(store, id)
              /\ reply' = Answer(Answer(request, [after |-> Deleted(store, id), fault |-> FALSE]),
                                 ResponseSuccess(200, MSG_DELETED, <<>>))
    /\ UNCHANGED <<nextId, isConfigured, welcomeSent, pc, data, idx, result, dto, cur, log,
                   foreign, put, searchVars, mailVars>>

\* getDetailData of GET /employees/:id
GetEmployee(id) ==
    /\ Received
    /\ LET request == [route |-> "GET", id |-> id, known |-> id \in DOMAIN store,
                       before |-> store, after |-> store]
           employee == GetDetailData(store, id)
       IN  \/ reply' = Answer(Answer(request, [fault |-> TRUE]), ErrorHandler(OtherError))
           \/ reply' = Answer(Answer(request, [fault |-> FALSE]),
                              IF employee = <<>>
                              THEN ErrorHandler(HttpException(MSG_NOT_FOUND, 404))
                              ELSE ResponseSuccess(200, MSG_RETRIEVED, employee))
    /\ UNCHANGED <<store, nextId, isConfigured, welcomeSent, pc, data, idx, result, dto, cur, log,
                   foreign, put, searchVars, mailVars>>

HttpInit == Init

HttpNext ==
    \/ \E id \in HttpIds : GetEmployee(id)
    \/ \E payload \in HttpCreatePayloads : PostEmployee(payload)
    \/ \E id \in HttpIds, payload \in HttpUpdatePayloads : PutUpdate(id, payload)
    \/ PutFind
    \/ PutFindFails
    \/ \E id \in HttpIds : DeleteEmployee(id)

SpecHttp == HttpInit /\ [][HttpNext]_vars

(***************************************************************************)
(* getAllData(name): the name search.  Texts are sequences of characters:  *)
(* letters in both cases, a blank, and the two characters LIKE reads as    *)
(* wildcards.                                                              *)
(***************************************************************************)
Chars == {"a", "A", "n", " ", "_", "%"}

\* the names of the stored records: "An", "na", "a n"
StoredNames == {<<"A", "n">>, <<"n", "a">>, <<"a", " ", "n">>}

\* the name arguments; <<>> in `query` stands for an absent argument and
\* <<name>> for the argument name
Queries == {<<>>} \cup {<<name>> : name \in SeqsUpTo(Chars, MaxQueryLen)}

\* String.prototype.toLowerCase and SQL LOWER, on the characters above
ToLowerCase(text) == [i \in 1..Len(text) |-> IF text[i] = "A" THEN "a" ELSE text[i]]

\* String.prototype.trim
RECURSIVE TrimStart(_)
TrimStart(text) ==
    IF text # <<>> /\ Head(text) = " " THEN TrimStart(Tail(text)) ELSE text

RECURSIVE TrimEnd(_)
TrimEnd(text) ==
    IF text # <<>> /\ text[Len(text)] = " " THEN TrimEnd(SubSeq(text, 1, Len(text) - 1)) ELSE text

Trim(text) == TrimEnd(TrimStart(text))

\* text LIKE pattern: % matches any run of characters, _ any one character
RECURSIVE Like(_, _)
Like(text, pattern) ==
    IF pattern = <<>> THEN text = <<>>
    ELSE IF Head(pattern) = "%"
         THEN Like(text, Tail(pattern)) \/ (text # <<>> /\ Like(Tail(text), pattern))
    ELSE /\ text # <<>>
         /\ Head(pattern) = "_" \/ Head(pattern) = Head(text)
         /\ Like(Tail(text), Tail(pattern))

\* getAllData(name): the rows the query builder selects
GetAllData(rows, arg) ==
    IF arg # <<>> /\ arg[1] # <<>> /\ Trim(arg[1]) # <<>>
    THEN {text \in rows : Like(ToLowerCase(text), <<"%">> \o ToLowerCase(arg[1]) \o <<"%">>)}
    ELSE rows

\* GET /employees?name=...
Search(arg) ==
    /\ found = <<>>
    /\ query' = arg
    /\ found' = <<GetAllData(table, arg)>>
    /\ UNCHANGED <<table, store, nextId, isConfigured, welcomeSent, pc, data, idx, result, dto,
                   cur, log, foreign, served, httpVars, mailVars>>

SearchInit ==
    /\ store = <<>>
    /\ nextId = 1
    /\ isConfigured \in BOOLEAN
    /\ smtp = Constructed(isConfigured)
    /\ Serving
    /\ welcomeSent = <<>>
    /\ pc = [p \in ImportIds |-> "idle"]
    /\ data = [p \in ImportIds |-> <<>>]
    /\ idx = [p \in ImportIds |-> 0]
    /\ result = [p \in ImportIds |-> EmptyResult]
    /\ dto = [p \in ImportIds |-> NoRow]
    /\ cur = [p \in ImportIds |-> NoCalls]
    /\ log = [p \in ImportIds |-> <<>>]
    /\ foreign = [p \in ImportIds |-> FALSE]
    /\ served = 0
    /\ HttpIdle
    /\ MailIdle
    /\ table \in SUBSET StoredNames
    /\ query = <<>>
    /\ found = <<>>

SearchNext == \E arg \in Queries : Search(arg)

SpecSearch == SearchInit /\ [][SearchNext]_vars

(***************************************************************************)
(* Notifications: an upload followed from importData to the summary the    *)
(* import endpoint sends, the transport settling sends, and the            *)
(* verification callback of the sender (SpecMail); every caller of the     *)
(* sender, createData requests and the scheduled jobs included, up to the  *)
(* hand-over to the transport (SpecSenders).                               *)
(***************************************************************************)
MailRows == {Row("Ann", EmailA, NULL), Row("Cat", EmailB, "0812")}

MailBatches == SeqsUpTo(MailRows, MaxMailRows) \ {<<>>}

\* whether a run of the job gets as far as its send: the daily report when
\* count() resolves, the birthday reminder when its query resolves with at
\* least one employee, the backup reminder always
JobReaches(job) ==
    IF job = "weekly-backup-reminder" THEN {TRUE}
    ELSE IF job = "daily-report" THEN {TRUE, FALSE}
    ELSE {FALSE} \cup (IF store # <<>> THEN {TRUE} ELSE {})

\* the message of the import response
ImportMessage(importResult) ==
    IF importResult.failed > 0
    THEN "Import completed with some errors. Imported: " \o ToString(importResult.imported)
             \o ", Failed: " \o ToString(importResult.failed)
    ELSE "Successfully imported " \o ToString(importResult.imported) \o " employees"

\* importFromCSV / importFromExcel after importData has returned: the
\* summary is dispatched, not awaited, and the response is written
ImportRespond(p) ==
    /\ pc[p] = "done"
    /\ pc' = [pc EXCEPT ![p] = "replied"]
    /\ adminSent' = IF AdminDispatched(adminEmail, isConfigured)
                    THEN Append(adminSent, "import") ELSE adminSent
    /\ reply' = Answer([route |-> "IMPORT", file |-> <<data[p]>>],
                       ResponseSuccess(200, ImportMessage(result[p]), <<result[p]>>))
    /\ UNCHANGED <<store, nextId, isConfigured, welcomeSent, data, idx, result, dto, cur, log,
                   foreign, served, put, searchVars, lifeVars, smtp, adminEmail, settled, ticks>>

\* mutant of JobStore: the callback empties the table
JobStore_Purged(job, s) == <<>>

\* the store after the store calls of a job's callback: count() of the daily
\* report, the getMany() query of the birthday reminder, none of the backup
\* reminder; all of them read
JobStore(job, s) == s

\* the callback of a scheduled job
CronRun(job) ==
    /\ ticks < MaxTicks
    /\ ticks' = ticks + 1
    /\ store' = JobStore(job, store)
    /\ \E reached \in JobReaches(job) :
          adminSent' = IF reached /\ AdminDispatched(adminEmail, isConfigured)
                       THEN Append(adminSent, job) ELSE adminSent
    /\ UNCHANGED <<nextId, isConfigured, welcomeSent, pc, data, idx, result, dto, cur,
                   log, foreign, served, httpVars, searchVars, lifeVars, smtp, adminEmail, settled>>

\* the transport resolves the send of message m
SendResolves(m) ==
    /\ m \in InTransport
    /\ settled' = settled \cup {[to |-> m.to, ref |-> m.ref, ok |-> TRUE]}
    /\ UNCHANGED <<store, nextId, isConfigured, welcomeSent, pc, data, idx, result, dto, cur,
                   log, foreign, served, httpVars, searchVars, lifeVars, smtp, adminEmail, adminSent, ticks>>

\* the transport rejects the send of message m
SendRejects(m) ==
    /\ m \in InTransport
    /\ settled' = settled \cup {[to |-> m.to, ref |-> m.ref, ok |-> FALSE]}
    /\ welcomeSent' = IF m.to = "employee" THEN AfterSendError(welcomeSent, m.ref)
                      ELSE welcomeSent
    /\ UNCHANGED <<store, nextId, isConfigured, pc, data, idx, result, dto, cur, log, foreign,
                   served, httpVars, searchVars, lifeVars, smtp, adminEmail, adminSent, ticks>>

\* mutant of AfterVerify: the error is logged only
AfterVerify_LoggedOnly(flag, error) == flag

\* the callback of transporter.verify: the flag afterwards
AfterVerify(flag, error) == IF error THEN FALSE ELSE flag

\* the callback of transporter.verify reports an error
VerifyFails ==
    /\ smtp.verify = "pending"
    /\ smtp' = [smtp EXCEPT !.verify = "failed"]
    /\ isConfigured' = AfterVerify(isConfigured, TRUE)
    /\ UNCHANGED <<store, nextId, welcomeSent, pc, data, idx, result, dto, cur, log, foreign,
                   served, httpVars, searchVars, lifeVars, adminEmail, adminSent,
                   settled, ticks>>

\* the callback of transporter.verify reports success
VerifyPasses ==
    /\ smtp.verify = "pending"
    /\ smtp' = [smtp EXCEPT !.verify = "passed"]
    /\ isConfigured' = AfterVerify(isConfigured, FALSE)
    /\ UNCHANGED <<store, nextId, welcomeSent, pc, data, idx, result, dto, cur, log, foreign,
                   served, httpVars, searchVars, lifeVars, adminEmail, adminSent,
                   settled, ticks>>

\* mutant of SettingsMissing: the password is not looked at
SettingsMissing_NoPass(env) == ~env.host \/ ~env.user

\* !emailConfig.host || !emailConfig.auth.user || !emailConfig.auth.pass
SettingsMissing(env) == ~env.host \/ ~env.user \/ ~env.pass

\* initializeTransporter, called by the constructor: without the settings
\* the flag stays false; otherwise the transporter is created, the flag is
\* set and the verification is started, unless createTransport or verify
\* throws, which the catch block answers by clearing the flag
InitializeTransporter ==
    /\ smtp.stage = "new"
    /\ IF SettingsMissing(smtp)
       THEN /\ isConfigured' = FALSE
            /\ smtp' = [smtp EXCEPT !.stage = "built"]
       ELSE \/ /\ isConfigured' = TRUE
               /\ smtp' = [smtp EXCEPT !.stage = "built", !.transporter = TRUE,
                                       !.verify = "pending"]
            \/ /\ isConfigured' = FALSE
               /\ \E created \in BOOLEAN :
                      smtp' = [smtp EXCEPT !.stage = "built", !.transporter = created]
    /\ UNCHANGED <<store, nextId, welcomeSent, pc, data, idx, result, dto, cur, log, foreign,
                   served, httpVars, searchVars, lifeVars, adminEmail, adminSent,
                   settled, ticks>>

MailInit ==
    /\ store = <<>>
    /\ nextId = 1
    /\ isConfigured \in BOOLEAN
    /\ smtp = Constructed(isConfigured)
    /\ Serving
    /\ welcomeSent = <<>>
    /\ pc = [p \in ImportIds |-> "idle"]
    /\ data = [p \in ImportIds |-> <<>>]
    /\ idx = [p \in ImportIds |-> 0]
    /\ result = [p \in ImportIds |-> EmptyResult]
    /\ dto = [p \in ImportIds |-> NoRow]
    /\ cur = [p \in ImportIds |-> NoCalls]
    /\ log = [p \in ImportIds |-> <<>>]
    /\ foreign = [p \in ImportIds |-> FALSE]
    /\ served = 0
    /\ HttpIdle
    /\ SearchIdle
    /\ adminEmail \in BOOLEAN
    /\ adminSent = <<>>
    /\ settled = {}
    /\ ticks = 0

MailNext ==
    \/ \E p \in ImportIds, batch \in MailBatches : ImportStart(p, batch)
    \/ \E p \in ImportIds : ImportNext(p)
    \/ \E p \in ImportIds : ImportLookup(p)
    \/ \E p \in ImportIds : ImportSave(p)
    \/ \E p \in ImportIds : ImportRespond(p)
    \/ \E m \in InTransport : SendResolves(m)
    \/ \E m \in InTransport : SendRejects(m)
    \/ VerifyFails

SpecMail == MailInit /\ [][MailNext]_vars

\* every store call returns, and synchronous code runs on: a step of
\* importData that can be taken is taken.  Nothing obliges the transport to
\* settle a send.
MailFairness ==
    \A p \in ImportIds :
        WF_vars(ImportNext(p)) /\ WF_vars(ImportLookup(p)) /\ WF_vars(ImportSave(p))

SpecMailFair == MailInit /\ [][MailNext]_vars /\ MailFairness

\* uploads of one row: a valid row, or one the validation rejects
SenderBatches == {<<rowData>> : rowData \in MailRows \cup {Row("Dan", BadEmail, LongPhone)}}

SendersNext ==
    \/ \E p \in ImportIds, batch \in SenderBatches : ImportStart(p, batch)
    \/ \E p \in ImportIds : ImportNext(p)
    \/ \E p \in ImportIds : ImportLookup(p)
    \/ \E p \in ImportIds : ImportSave(p)
    \/ \E p \in ImportIds : ImportRespond(p)
    \/ \E payload \in MailRows : CreateData(payload)
    \/ \E job \in CronJobs : CronRun(job)
    \/ VerifyFails

SpecSenders == MailInit /\ [][SendersNext]_vars

(***************************************************************************)
(* The sender from its construction: the module creates the EmailService   *)
(* when it is loaded, before any request is served or job run.             *)
(***************************************************************************)
SenderInit ==
    /\ store = <<>>
    /\ nextId = 1
    /\ isConfigured = FALSE
    /\ smtp \in {NewSender(env) : env \in Settings}
    /\ Serving
    /\ welcomeSent = <<>>
    /\ pc = [p \in ImportIds |-> "idle"]
    /\ data = [p \in ImportIds |-> <<>>]
    /\ idx = [p \in ImportIds |-> 0]
    /\ result = [p \in ImportIds |-> EmptyResult]
    /\ dto = [p \in ImportIds |-> NoRow]
    /\ cur = [p \in ImportIds |-> NoCalls]
    /\ log = [p \in ImportIds |-> <<>>]
    /\ foreign = [p \in ImportIds |-> FALSE]
    /\ served = 0
    /\ HttpIdle
    /\ SearchIdle
    /\ adminEmail \in BOOLEAN
    /\ adminSent = <<>>
    /\ settled = {}
    /\ ticks = 0

SenderNext ==
    \/ InitializeTransporter
    \/ VerifyPasses
    \/ VerifyFails
    \/ \E payload \in MailRows : smtp.stage = "built" /\ CreateData(payload)
    \/ \E job \in CronJobs : smtp.stage = "built" /\ CronRun(job)

SpecSender == SenderInit /\ [][SenderNext]_vars

(***************************************************************************)
(* The calls made on the CronJobService that initializeCronJobs returns.   *)
(***************************************************************************)
\* everything but the registry and the process
restOfLife == <<store, nextId, isConfigured, welcomeSent, pc, data, idx, result, dto, cur, log,
                foreign, served, httpVars, searchVars, adminEmail, adminSent, settled, ticks,
                smtp>>

\* initializeCronJobs(dataSource): a new service, then initializeJobs()
InitializeCronJobs ==
    /\ cron.stage = "new"
    /\ cron' = [InitializeJobs(cron) EXCEPT !.last = [op |-> "initializeJobs"]]
    /\ UNCHANGED <<restOfLife, proc>>

\* history: the call, the registry it found and what it returned
Called(op, jobName, returned) ==
    [op |-> op, name |-> jobName, registered |-> jobName \in DOMAIN cron.jobs,
     before |-> DOMAIN cron.jobs, returned |-> returned]

StopJob(jobName) ==
    /\ cron.stage = "initialized"
    /\ LET o == StopJobOutcome(cron, jobName)
       IN  cron' = [o.service EXCEPT !.last = Called("stopJob", jobName, o.returned)]
    /\ UNCHANGED <<restOfLife, proc>>

RestartJob(jobName) ==
    /\ cron.stage = "initialized"
    /\ LET o == RestartJobOutcome(cron, jobName)
       IN  cron' = [o.service EXCEPT !.last = Called("restartJob", jobName, o.returned)]
    /\ UNCHANGED <<restOfLife, proc>>

StopAllJobs ==
    /\ cron.stage = "initialized"
    /\ cron' = [StopAllJobsOutcome(cron) EXCEPT !.last = [op |-> "stopAllJobs",
                                                          before |-> DOMAIN cron.jobs]]
    /\ UNCHANGED <<restOfLife, proc>>

CronInit ==
    /\ store = <<>>
    /\ nextId = 1
    /\ isConfigured \in BOOLEAN
    /\ smtp = Constructed(isConfigured)
    /\ cron = NewCronService
    /\ proc = [server |-> "starting", db |-> "connected", callbacks |-> <<>>,
               events |-> <<>>, exited |-> <<>>]
    /\ welcomeSent = <<>>
    /\ pc = [p \in ImportIds |-> "idle"]
    /\ data = [p \in ImportIds |-> <<>>]
    /\ idx = [p \in ImportIds |-> 0]
    /\ result = [p \in ImportIds |-> EmptyResult]
    /\ dto = [p \in ImportIds |-> NoRow]
    /\ cur = [p \in ImportIds |-> NoCalls]
    /\ log = [p \in ImportIds |-> <<>>]
    /\ foreign = [p \in ImportIds |-> FALSE]
    /\ served = 0
    /\ HttpIdle
    /\ SearchIdle
    /\ MailIdle

CronNext ==
    \/ InitializeCronJobs
    \/ \E jobName \in CronJobs \cup {"no-such-job"} : StopJob(jobName)
    \/ \E jobName \in CronJobs \cup {"no-such-job"} : RestartJob(jobName)
    \/ StopAllJobs

SpecCron == CronInit /\ [][CronNext]_vars

(***************************************************************************)
(* Shutdown: the SIGINT and SIGTERM handlers of startServer.  The server   *)
(* emits 'close' once it has stopped listening and its connections have    *)
(* ended; each close() callback runs after that event.                     *)
(***************************************************************************)
Signals == {"SIGINT", "SIGTERM"}

\* shutdown(signal) up to the return of server.close(callback)
Shutdown(signal) ==
    /\ proc.exited = <<>>
    /\ proc.server # "starting"
    /\ Len(SelectSeq(proc.events, LAMBDA e : e \in Signals)) < MaxSignals
    /\ cron' = StopAllJobsOutcome(cron)
    /\ proc' = [proc EXCEPT !.server = IF @ = "listening" THEN "closing" ELSE @,
                            !.callbacks = Append(@, "registered"),
                            !.events = @ \o <<signal, "stopAllJobs", "close">>]
    /\ UNCHANGED restOfLife

\* the last connection has ended: 'close' is emitted
ServerCloses ==
    /\ proc.exited = <<>>
    /\ proc.server = "closing"
    /\ proc' = [proc EXCEPT !.server = "closed", !.events = Append(@, "closed")]
    /\ UNCHANGED <<restOfLife, cron>>

\* the callback given to server.close, up to await AppDataSource.destroy()
CallbackRuns(i) ==
    /\ proc.exited = <<>>
    /\ proc.server = "closed"
    /\ i \in DOMAIN proc.callbacks
    /\ proc.callbacks[i] = "registered"
    /\ proc' = [proc EXCEPT !.callbacks[i] = "destroying", !.events = Append(@, "destroy")]
    /\ UNCHANGED <<restOfLife, cron>>

ExitCode_Failure(destroyed) == IF destroyed THEN 0 ELSE 1

\* finally { process.exit(0) }
ExitCode(destroyed) == 0

\* destroy() resolves or rejects; catch logs, finally exits
DestroySettles(i, destroyed) ==
    /\ proc.exited = <<>>
    /\ i \in DOMAIN proc.callbacks
    /\ proc.callbacks[i] = "destroying"
    /\ proc' = [proc EXCEPT !.callbacks[i] = "done",
                            !.db = IF destroyed THEN "destroyed" ELSE @,
                            !.events = Append(@, IF destroyed THEN "destroyed"
                                                              ELSE "destroy failed"),
                            !.exited = <<ExitCode(destroyed)>>]
    /\ UNCHANGED <<restOfLife, cron>>

ShutdownNext ==
    \/ \E signal \in Signals : Shutdown(signal)
    \/ ServerCloses
    \/ \E i \in 1..MaxSignals : CallbackRuns(i)
    \/ \E i \in 1..MaxSignals, destroyed \in BOOLEAN : DestroySettles(i, destroyed)

\* a callback whose event has been emitted runs, and destroy() settles
SpecShutdownFair ==
    /\ Init
    /\ [][ShutdownNext]_vars
    /\ WF_vars(\E i \in 1..MaxSignals : CallbackRuns(i))
    /\ WF_vars(\E i \in 1..MaxSignals, destroyed \in BOOLEAN : DestroySettles(i, destroyed))

(***************************************************************************)
(* The import endpoints, from the upload to the response.  A file is <<>>  *)
(* when the request carries none, and <<rows>> when it parses to rows.     *)
(***************************************************************************)

MSG_NO_FILE == "No file uploaded"
MSG_EMPTY_FILE == "CSV file is empty"

\* a row without a name, two valid rows, a row with a malformed email
UploadRows ==
    { Row(NULL, EmailA, NULL), Row("Ann", EmailA, NULL), Row("Cat", EmailB, "0812"),
      Row("Dan", BadEmail, LongPhone) }

UploadFiles == {<<>>} \cup {<<rows>> : rows \in SeqsUpTo(UploadRows, MaxUploadRows)}

\* mutant of UploadError: a file without rows is handed to importData
UploadError_MissingOnly(file) ==
    IF file = <<>> THEN <<HttpException(MSG_NO_FILE, 400)>> ELSE <<>>

\* the error the handler throws before importData is called: <<error>>, or
\* <<>> when it goes on
UploadError(file) ==
    IF file = <<>> THEN <<HttpException(MSG_NO_FILE, 400)>>
    ELSE IF Len(file[1]) = 0 THEN <<HttpException(MSG_EMPTY_FILE, 400)>>
    ELSE <<>>

\* importFromCSV / importFromExcel up to the call of importData
ImportFromFile(p, file) ==
    /\ pc[p] = "idle"
    /\ IF UploadError(file) # <<>>
       THEN /\ pc' = [pc EXCEPT ![p] = "replied"]
            /\ reply' = Answer([route |-> "IMPORT", file |-> file, before |-> store,
                                after |-> store],
                               ErrorHandler(UploadError(file)[1]))
            /\ UNCHANGED <<store, nextId, isConfigured, welcomeSent, data, idx, result, dto,
                           cur, log, foreign, served, put, searchVars, mailVars>>
       ELSE ImportStart(p, file[1])

UploadNext ==
    \/ \E p \in ImportIds, file \in UploadFiles : ImportFromFile(p, file)
    \/ \E p \in ImportIds : ImportNext(p)
    \/ \E p \in ImportIds : ImportLookup(p)
    \/ \E p \in ImportIds : ImportSave(p)
    \/ \E p \in ImportIds : ImportRespond(p)

\* the store as earlier requests left it: empty, or holding one record
SeededStores == {<<>>, <<Row("Ann", EmailA, NULL)>>}

UploadInit ==
    /\ store \in SeededStores
    /\ nextId = Len(store) + 1
    /\ isConfigured \in BOOLEAN
    /\ smtp = Constructed(isConfigured)
    /\ Serving
    /\ welcomeSent = <<>>
    /\ pc = [p \in ImportIds |-> "idle"]
    /\ data = [p \in ImportIds |-> <<>>]
    /\ idx = [p \in ImportIds |-> 0]
    /\ result = [p \in ImportIds |-> EmptyResult]
    /\ dto = [p \in ImportIds |-> NoRow]
    /\ cur = [p \in ImportIds |-> NoCalls]
    /\ log = [p \in ImportIds |-> <<>>]
    /\ foreign = [p \in ImportIds |-> FALSE]
    /\ served = 0
    /\ HttpIdle
    /\ SearchIdle
    /\ adminEmail \in BOOLEAN
    /\ adminSent = <<>>
    /\ settled = {}
    /\ ticks = 0

SpecUpload == UploadInit /\ [][UploadNext]_vars

(***************************************************************************)
(* Properties.  Positions k are 1-based: position k is the row at 0-based  *)
(* input index k - 1, whose row number is k + 1.                           *)
(***************************************************************************)
Returned(p) == pc[p] = "done"

\* the positions of the rows the import has finished with
Processed(p) == 1..Len(log[p])

\* the indices of the entries of errors that carry the row number of position k
ErrorsOfRow(p, k) ==
    {j \in 1..Len(result[p].errors) : result[p].errors[j].row = k + 1}

\* position k failed, with exactly one entry of errors, whose reason is `reason`
FailedWith(p, k, reason) ==
    /\ log[p][k].newId = 0
    /\ Cardinality(ErrorsOfRow(p, k)) = 1
    /\ \A j \in ErrorsOfRow(p, k) : result[p].errors[j].error = reason

\* C1: after every loop iteration i of importData, imported + failed = i and
\* errors has exactly `failed` entries; when importData returns, i is the
\* number N of rows of the batch, so imported + failed = N.
C1_CountsAddUp ==
    \A p \in ImportIds :
        /\ result[p].imported + result[p].failed = idx[p]
        /\ Len(result[p].errors) = result[p].failed
        /\ idx[p] <= Len(data[p])
        /\ result[p].failed = Cardinality({k \in Processed(p) : log[p][k].newId = 0})
        /\ Returned(p) => result[p].imported + result[p].failed = Len(data[p])

C1_Witness ==
    \E p \in ImportIds :
        /\ Returned(p)
        /\ Len(data[p]) = 2
        /\ result[p].imported = 1
        /\ result[p].failed = 1

\* C2: the entry of errors for the row at 0-based index i carries row number
\* i + 2 and that row as its data, a row has at most one entry, exactly the
\* failed rows have one, and the row numbers are strictly increasing.
C2_RowNumbersInOrder ==
    \A p \in ImportIds :
        LET errors == result[p].errors
        IN  /\ \A j \in 1..Len(errors) :
                   /\ errors[j].row - 2 \in 0..(Len(data[p]) - 1)
                   /\ errors[j].data = data[p][(errors[j].row - 2) + 1]
                   /\ log[p][(errors[j].row - 2) + 1].newId = 0
            /\ \A j \in 1..(Len(errors) - 1) : errors[j].row < errors[j + 1].row
            /\ \A k \in Processed(p) :
                   Cardinality(ErrorsOfRow(p, k)) = IF log[p][k].newId = 0 THEN 1 ELSE 0

C2_Witness ==
    \E p \in ImportIds :
        /\ Returned(p)
        /\ Len(result[p].errors) = 2
        /\ result[p].errors[1].row = 2
        /\ result[p].errors[2].row = 3

\* C3 as stated: a row whose store lookup or insert threw is recorded as
\* failed with the message of the error that was thrown.
C3_ThrownMessageRecorded ==
    \A p \in ImportIds : \A k \in Processed(p) :
        log[p][k].thrown # NULL => FailedWith(p, k, log[p][k].thrown)

\* C3, amended: a row whose store lookup or insert threw is recorded as failed
\* with the message of the error, or with "Unknown error" when that message is
\* empty; every row of the batch is then still processed exactly once, in
\* order, and importData returns its result.
C3_BadRowNeverAborts ==
    \A p \in ImportIds :
        /\ \A k \in Processed(p) :
               log[p][k].thrown # NULL =>
                   FailedWith(p, k, IF log[p][k].thrown = "" THEN "Unknown error"
                                    ELSE log[p][k].thrown)
        /\ Len(log[p]) = idx[p]
        /\ pc[p] \in {"lookup", "save"} => idx[p] < Len(data[p])
        /\ Returned(p) => Len(log[p]) = Len(data[p])

\* a lookup threw on the first row, an insert threw on the second, and the
\* import returned
C3_Witness ==
    \E p \in ImportIds :
        /\ Returned(p)
        /\ Len(data[p]) = 2
        /\ log[p][1].thrown = "" /\ log[p][1].inserts = 0
        /\ log[p][2].thrown # NULL /\ log[p][2].thrown # "" /\ log[p][2].inserts = 1

\* name or email missing or empty
C4_Incomplete(rowData) ==
    \/ rowData.name = NULL \/ rowData.name = ""
    \/ rowData.email = NULL \/ rowData.email = ""

\* C4: a row whose name or email is missing or empty is reported with exactly
\* "Name and email are required"; no lookup and no insert is issued for it and
\* it creates no record.
C4_RequiredFields ==
    \A p \in ImportIds : \A k \in Processed(p) :
        C4_Incomplete(data[p][k]) =>
            /\ FailedWith(p, k, "Name and email are required")
            /\ log[p][k].lookups = 0
            /\ log[p][k].inserts = 0
            /\ log[p][k].newId = 0

\* a row without a name and a row with an empty email were both processed
C4_Witness ==
    \E p \in ImportIds :
        /\ Returned(p)
        /\ Len(data[p]) = 2
        /\ data[p][1].name = NULL
        /\ data[p][2].email = ""
        /\ result[p].failed = 2

\* a field-shape constraint of EmployeeRecord is violated: a length bound or
\* the email syntax
C5_Malformed(rowData) ==
    /\ ~C4_Incomplete(rowData)
    /\ \/ Len(rowData.name) > 100
       \/ Len(rowData.email) > 100
       \/ rowData.email \notin WellFormedEmails
       \/ rowData.phoneNumber \notin {NULL, ""} /\ Len(rowData.phoneNumber) > 15

C5_ConstraintText(rowData) == ValidationText(Validate(ToDto(rowData)))

\* C5 as stated: a row that violates a field-shape constraint is reported with
\* the constraint-violation message and causes no store query.
C5_ValidationBeforeLookup ==
    \A p \in ImportIds : \A k \in Processed(p) :
        C5_Malformed(data[p][k]) =>
            /\ FailedWith(p, k, C5_ConstraintText(data[p][k]))
            /\ log[p][k].lookups = 0

\* C5, amended: only the required-field check precedes the duplicate lookup;
\* the field-shape checks run after it.  A row that violates a field-shape
\* constraint causes exactly one store query and no insert; it is reported
\* with "Email already exists" when a record with its email is in the store,
\* and with the constraint-violation message when none is.
C5_LookupBeforeShapeChecks ==
    \A p \in ImportIds : \A k \in Processed(p) :
        C5_Malformed(data[p][k]) =>
            /\ log[p][k].lookups = 1
            /\ log[p][k].inserts = 0
            /\ log[p][k].newId = 0
            /\ ~log[p][k].fault =>
                   IF log[p][k].present
                   THEN FailedWith(p, k, "Email already exists")
                   ELSE /\ FailedWith(p, k, C5_ConstraintText(data[p][k]))
                        /\ C5_ConstraintText(data[p][k]) \notin
                               {"", "Email already exists", "Name and email are required"}

\* a row with a name over its bound was processed while a record with its
\* email was in the store, then a row with a malformed email that no record holds
C5_Witness ==
    \E p \in ImportIds :
        /\ Returned(p)
        /\ Len(data[p]) = 2
        /\ Len(data[p][1].name) > 100
        /\ log[p][1].present /\ ~log[p][1].fault
        /\ result[p].errors[1].error = "Email already exists"
        /\ data[p][2].email = BadEmail
        /\ ~log[p][2].present /\ ~log[p][2].fault
        /\ result[p].errors[2].error =
              "email must be an email, phoneNumber must be shorter than or equal to 15 characters"

C6_WellFormed(rowData) == ~C4_Incomplete(rowData) /\ ~C5_Malformed(rowData)

\* C6: of two otherwise valid rows of one batch that share an email not yet in
\* the store, the earlier is persisted and the later is reported as failed
\* with "Email already exists", so exactly one record holds that email (no
\* store call of the two rows breaking, no other request changing the store
\* since the import began).
C6_SecondOccurrenceRejected ==
    \A p \in ImportIds :
        (Returned(p) /\ ~foreign[p]) =>
            \A i, j \in Processed(p) :
                ( /\ i < j
                  /\ C6_WellFormed(data[p][i]) /\ C6_WellFormed(data[p][j])
                  /\ data[p][i].email = data[p][j].email
                  /\ ~log[p][i].present
                  /\ ~log[p][i].fault /\ ~log[p][j].fault )
                =>
                ( /\ log[p][i].newId \in DOMAIN store
                  /\ store[log[p][i].newId].name = data[p][i].name
                  /\ store[log[p][i].newId].email = data[p][i].email
                  /\ FailedWith(p, j, "Email already exists")
                  /\ Cardinality({k \in DOMAIN store : store[k].email = data[p][i].email}) = 1 )

C6_Witness ==
    \E p \in ImportIds :
        /\ Returned(p) /\ ~foreign[p]
        /\ Len(data[p]) = 2
        /\ data[p][1].name = "Ann" /\ data[p][2].name = "Bob"
        /\ data[p][1].email = data[p][2].email
        /\ result[p].imported = 1
        /\ result[p].failed = 1
        /\ result[p].errors[1].row = 3

\* C7: a row (name and email present) whose email is held by a record of the
\* store when it is looked up fails with "Email already exists"; no insert is
\* issued for it and the step that rejects it leaves the store as it was.
C7_ExistingEmailRejected ==
    /\ [](\A p \in ImportIds : \A k \in Processed(p) :
            (~C4_Incomplete(data[p][k]) /\ log[p][k].present /\ ~log[p][k].fault) =>
                /\ FailedWith(p, k, "Email already exists")
                /\ log[p][k].inserts = 0)
    /\ [][\A p \in ImportIds :
            ( /\ pc[p] = "lookup"
              /\ data[p][idx[p] + 1].email \in Emails(store)
              /\ idx'[p] = idx[p] + 1 )
            => store' = store]_vars

C7_Witness ==
    \E p \in ImportIds :
        /\ Returned(p)
        /\ Len(data[p]) = 1
        /\ log[p][1].present /\ ~log[p][1].fault
        /\ result[p].failed = 1
        /\ Cardinality(DOMAIN store) = 1

\* C8: a one-row batch whose row is valid (and whose email no record holds)
\* yields imported = 1, failed = 0 and no errors, and getDetailData returns
\* the created record for the id it was assigned (no store call breaking, no
\* other request changing the store since the import began).
C8_ValidSingleRow ==
    \A p \in ImportIds :
        ( /\ Returned(p) /\ ~foreign[p]
          /\ Len(data[p]) = 1
          /\ C6_WellFormed(data[p][1])
          /\ ~log[p][1].present
          /\ ~log[p][1].fault )
        =>
        ( /\ result[p] = [imported |-> 1, failed |-> 0, errors |-> <<>>]
          /\ log[p][1].newId > 0
          /\ GetDetailData(store, log[p][1].newId) =
                <<[name |-> data[p][1].name, email |-> data[p][1].email,
                   phoneNumber |-> IF data[p][1].phoneNumber \in {NULL, ""} THEN NULL
                                   ELSE data[p][1].phoneNumber]>> )

C8_Witness ==
    \E p \in ImportIds :
        /\ Returned(p) /\ ~foreign[p]
        /\ Len(data[p]) = 1
        /\ data[p][1].phoneNumber = ""
        /\ result[p].imported = 1
        /\ Cardinality(DOMAIN store) = 2

\* C9 as stated: while a batch is processed no message is handed to the
\* notification sender.
C9_NoSendDuringImport ==
    \A p \in ImportIds :
        /\ cur[p].sends = 0
        /\ \A k \in Processed(p) : log[p][k].sends = 0

\* C9, amended: importData does dispatch email: through createData, one
\* welcome message for every row it imports while the sender is ready.  No
\* message is dispatched for a failed row, nor while the sender is not ready.
C9_WelcomePerImportedRow ==
    \A p \in ImportIds :
        /\ cur[p].sends = 0
        /\ \A k \in Processed(p) :
               /\ log[p][k].sends = IF log[p][k].newId # 0 /\ log[p][k].ready THEN 1 ELSE 0
               /\ log[p][k].newId # 0 =>
                      (log[p][k].newId \in DOMAIN welcomeSent <=> log[p][k].ready)

C9_Witness ==
    \E p \in ImportIds :
        /\ Returned(p)
        /\ result[p].imported = 1
        /\ \E k \in Processed(p) : log[p][k].sends = 1 /\ welcomeSent[log[p][k].newId] = 1

UniqueEmails(s) == \A a, b \in DOMAIN s : s[a].email = s[b].email => a = b

\* C10: no two stored records share an email, whatever createData, updateData,
\* deleteData and importData steps led to the state; a createData whose email
\* is taken and an updateData to an email another record holds fail and leave
\* the store unchanged.
C10_EmailUnique ==
    /\ UniqueEmails(store)
    /\ \A payload \in CreatePayloads \cup {ToDto(r) : r \in Rows} :
           payload.email \in Emails(store) =>
               \A o \in CreateDataOutcomes(payload) : ~o.ok /\ o.store = store
    /\ \A id \in DOMAIN store : \A payload \in UpdatePayloads :
           ( /\ "email" \in DOMAIN payload
             /\ \E k \in DOMAIN store : k # id /\ store[k].email = payload.email )
           => (~UpdateOutcome(id, payload).ok /\ UpdateOutcome(id, payload).store = store)

\* two records are stored and an update would give one the other's email
C10_Witness ==
    /\ Cardinality(DOMAIN store) = 2
    /\ \E id \in DOMAIN store : \E payload \in UpdatePayloads :
           /\ "email" \in DOMAIN payload
           /\ \E k \in DOMAIN store : k # id /\ store[k].email = payload.email
           /\ ~UpdateOutcome(id, payload).ok

(***************************************************************************)
(* Two concurrent imports.                                                 *)
(***************************************************************************)
MSG_DUPLICATE_KEY == "duplicate key value violates unique constraint"

\* the positions <<p, k>> of the well-formed rows of both batches that carry email e
RowsWithEmail(e) ==
    {r \in UNION {{<<p, k>> : k \in 1..Len(data[p])} : p \in RaceIds} :
        data[r[1]][r[2]].email = e /\ C6_WellFormed(data[r[1]][r[2]])}

\* C11: when two importData invocations that each hold a valid row with the
\* same email, not yet in the store, have both returned (no store call of
\* those rows breaking), exactly one record holds the email and exactly one
\* of the rows was counted as imported, by one invocation; every other one
\* was counted as failed: with "Email already exists" when its lookup found
\* the record, and with the store's unique-constraint error on its insert
\* when its lookup found nothing.
C11_OneWinner ==
    (\A p \in RaceIds : Returned(p)) =>
        \A e \in WellFormedEmails :
            LET rows == RowsWithEmail(e)
                won == {r \in rows : log[r[1]][r[2]].newId # 0}
            IN  ( /\ \A p \in RaceIds : \E r \in rows : r[1] = p
                  /\ \A r \in rows : ~log[r[1]][r[2]].fault )
                => /\ Cardinality({k \in DOMAIN store : store[k].email = e}) = 1
                   /\ Cardinality(won) = 1
                   /\ \A r \in rows \ won :
                          IF log[r[1]][r[2]].present
                          THEN FailedWith(r[1], r[2], MSG_EXISTS) /\ log[r[1]][r[2]].inserts = 0
                          ELSE FailedWith(r[1], r[2], MSG_DUPLICATE_KEY)
                               /\ log[r[1]][r[2]].inserts = 1
                   /\ (\A p \in RaceIds : \A k \in 1..Len(data[p]) : <<p, k>> \in rows)
                      => \E p \in RaceIds :
                            /\ result[p].imported = 1
                            /\ \A q \in RaceIds \ {p} :
                                  result[q].imported = 0 /\ result[q].failed = Len(data[q])

\* both lookups found nothing; one insert was accepted, the other rejected
C11_Witness ==
    /\ \A p \in RaceIds : Returned(p) /\ Len(data[p]) = 1 /\ ~log[p][1].present
                          /\ log[p][1].inserts = 1 /\ ~log[p][1].fault
    /\ \E p \in RaceIds : result[p].imported = 1
    /\ \E p \in RaceIds : FailedWith(p, 1, MSG_DUPLICATE_KEY)
    /\ Cardinality(DOMAIN store) = 1

(***************************************************************************)
(* The HTTP handlers.                                                      *)
(***************************************************************************)
\* C12: DELETE /employees/:id for an id the store does not hold (never
\* stored, or deleted by an earlier DELETE) is answered 404 "Employee not
\* found" and leaves the store unchanged; for an id it holds the answer is
\* 200 (no store call breaking on a lost connection).
C12_DeleteUnknownIsNotFound ==
    (reply.route = "DELETE" /\ ~reply.fault) =>
        IF reply.known
        THEN reply.status = 200
        ELSE reply.status = 404 /\ reply.message = MSG_NOT_FOUND /\ reply.after = reply.before

\* the PUT requests whose update the store has applied: the one under way and
\* the one last answered
AppliedUpdates ==
    (IF put.stage = "find" THEN {put} ELSE {})
    \cup (IF reply.route = "PUT" /\ reply.status \in {200, 404} THEN {reply} ELSE {})

\* C13: an update of id with payload that the store applies sets, on the
\* record with that id, exactly the fields the payload supplies (the id among
\* them, when supplied); the record's other fields keep their values, every
\* other record is unchanged, and no record appears or disappears.  An update
\* the store rejects, and an update of an id it does not hold, change nothing.
C13_OnlySuppliedFields ==
    /\ \A u \in AppliedUpdates :
           LET key == IF "id" \in DOMAIN u.body THEN u.body.id ELSE u.id
           IN  IF u.known
               THEN /\ DOMAIN u.updated = (DOMAIN u.before \ {u.id}) \cup {key}
                    /\ \A f \in DOMAIN u.before[u.id] :
                           u.updated[key][f] = IF f \in DOMAIN u.body THEN u.body[f]
                                               ELSE u.before[u.id][f]
                    /\ \A k \in DOMAIN u.before \ {u.id} : u.updated[k] = u.before[k]
               ELSE u.updated = u.before
    /\ (reply.route = "PUT" /\ "updated" \notin DOMAIN reply) => reply.after = reply.before

\* an update that supplied name and phoneNumber was applied to one of two records
C13_Witness ==
    /\ put.stage = "find"
    /\ put.known
    /\ Cardinality(DOMAIN put.before) = 2
    /\ DOMAIN put.body = {"name", "phoneNumber"}
    /\ put.updated # put.before
    /\ put.updated[put.id].email = put.before[put.id].email

\* the store rejects the update of id with payload body, seen from the store
\* `before` the request: no values, an email another record holds, or an id
\* another record holds
C14_Rejected(before, id, body) ==
    \/ DOMAIN body = {}
    \/ /\ id \in DOMAIN before
       /\ \/ "email" \in DOMAIN body
             /\ \E k \in DOMAIN before \ {id} : before[k].email = body.email
          \/ "id" \in DOMAIN body /\ body.id # id /\ body.id \in DOMAIN before

\* C14 as stated: PUT /employees/:id for an id not in the store is answered
\* 404 "Employee not found" and leaves the store unchanged; for an id in the
\* store it is answered 200 with the record as stored after the update (no
\* store call breaking on a lost connection).
C14_PutFoundOrNotFound ==
    (reply.route = "PUT" /\ ~reply.fault) =>
        IF reply.known
        THEN /\ reply.status = 200
             /\ reply.id \in DOMAIN reply.after
             /\ reply.data = <<reply.after[reply.id]>>
        ELSE /\ reply.status = 404
             /\ reply.message = MSG_NOT_FOUND
             /\ reply.after = reply.before

\* C14, amended: a PUT whose update the store rejects is answered 500 and
\* changes nothing; otherwise the update is applied and the id is read again:
\* the answer is 404 "Employee not found" when no record is stored under the
\* id then, and 200 with the record stored under it otherwise.  An id not in
\* the store whose update is not rejected is answered 404 with the store
\* unchanged by the request (no store call breaking on a lost connection).
C14_PutAnswers ==
    (reply.route = "PUT" /\ ~reply.fault) =>
        IF C14_Rejected(reply.before, reply.id, reply.body)
        THEN /\ reply.status = 500
             /\ reply.message = MSG_SERVER_ERROR
             /\ reply.after = reply.before
        ELSE /\ IF reply.id \in DOMAIN reply.after
                THEN /\ reply.status = 200
                     /\ reply.message = MSG_UPDATED
                     /\ reply.data = <<reply.after[reply.id]>>
                ELSE /\ reply.status = 404
                     /\ reply.message = MSG_NOT_FOUND
             /\ ~reply.known => reply.updated = reply.before
             /\ (reply.known /\ reply.after = reply.updated /\ "id" \notin DOMAIN reply.body)
                => reply.status = 200

\* an update of a stored record was answered 200 with the changed record
C14_Witness ==
    /\ reply.route = "PUT"
    /\ reply.known
    /\ reply.status = 200
    /\ reply.data # <<reply.before[reply.id]>>
    /\ reply.data = <<reply.after[reply.id]>>

\* C15: the id of a record is assigned by the store's sequence when the
\* record is inserted, identifies one record, and is never changed: every id
\* in use was handed out by the sequence, and an update the store applied (a
\* PUT whose body carries an id included) leaves every record under the id it
\* had.
C15_IdImmutable ==
    /\ \A k \in DOMAIN store : k \in 1..(nextId - 1)
    /\ \A u \in AppliedUpdates : DOMAIN u.updated = DOMAIN u.before

\* the body violates a constraint of CreateEmployeeRequest: name or email
\* missing or empty, an email that is no email address, a value over its
\* maximum length
C16_Invalid(body) == C4_Incomplete(body) \/ C5_Malformed(body)

\* C16: POST /employees with a body that violates a constraint is answered
\* 400 and persists nothing; only a body that satisfies every constraint is
\* answered 201.
C16_InvalidBodyRejected ==
    reply.route = "POST" =>
        /\ C16_Invalid(reply.body) => (reply.status = 400 /\ reply.after = reply.before)
        /\ reply.status = 201 => ~C16_Invalid(reply.body)

(***************************************************************************)
(* The name search.                                                        *)
(***************************************************************************)
\* the letters of text with case folded
C17_Folded(text) == [i \in 1..Len(text) |-> IF text[i] = "A" THEN "a" ELSE text[i]]

\* sub occurs in text at some position
C17_Contains(text, sub) ==
    \E i \in 0..(Len(text) - Len(sub)) : SubSeq(text, i + 1, i + Len(sub)) = sub

\* C17: getAllData(name) returns exactly the records whose name contains
\* name as a substring at some position, case ignored; with name absent,
\* empty or made of blanks only it returns every record.
C17_SubstringSearch ==
    found # <<>> =>
        found[1] = IF query = <<>> \/ \A i \in 1..Len(query[1]) : query[1][i] = " "
                   THEN table
                   ELSE {text \in table : C17_Contains(C17_Folded(text), C17_Folded(query[1]))}

(***************************************************************************)
(* Notifications.                                                          *)
(***************************************************************************)
Replied(p) == pc[p] = "replied"

\* what createData did for its caller and to the store
C18_Effect(outcomes) ==
    {[ok |-> o.ok, message |-> o.message, id |-> o.id, store |-> o.store, nextId |-> o.nextId] :
        o \in outcomes}

\* C18: what createData, importData and the import endpoint return and do to
\* the store does not depend on the notification sends.  Skipped or handed
\* over: createData has the same outcomes for a ready and for an unready
\* sender.  Resolved or rejected: a step in which the transport settles a
\* send changes neither the store nor any invocation's position, result or
\* history, and hands nothing to the transport again; every message is
\* handed over at most once, and a row is counted as failed only for what a
\* store call returned (email present, or the call broke), never for a send.
C18_SendsDoNotMatter ==
    /\ [](/\ \A payload \in CreatePayloads \cup MailRows :
                C18_Effect(CreateDataWith(payload, TRUE))
                    = C18_Effect(CreateDataWith(payload, FALSE))
          /\ \A id \in DOMAIN welcomeSent : welcomeSent[id] = 1
          /\ Len(adminSent) <= Cardinality({p \in ImportIds : Replied(p)})
          /\ \A p \in ImportIds :
                /\ \A k \in Processed(p) :
                      IF log[p][k].newId = 0
                      THEN log[p][k].present \/ log[p][k].fault
                      ELSE log[p][k].newId \in DOMAIN store
                /\ result[p].imported = Cardinality({k \in Processed(p) : log[p][k].newId # 0}))
    /\ [][settled' # settled =>
            UNCHANGED <<store, nextId, pc, data, idx, result, dto, cur, log, welcomeSent,
                        adminSent>>]_vars

\* the upload was answered with both rows imported although the transport
\* rejected one welcome send and resolved the other
C18_Witness ==
    \E p \in ImportIds :
        /\ Replied(p)
        /\ result[p].imported = 2
        /\ result[p].failed = 0
        /\ Len(adminSent) = 1
        /\ \E s \in settled : s.to = "employee" /\ ~s.ok
        /\ \E s \in settled : s.to = "employee" /\ s.ok

\* C19: a step hands a message to the mail transport only from a state in
\* which the sender's readiness flag is true, whichever caller it is
\* (createData, the import endpoint, a scheduled job); while the flag is
\* false createData hands nothing over and fails only for what the store did.
C19_NothingSentUnlessReady ==
    /\ [][(welcomeSent' # welcomeSent \/ adminSent' # adminSent) => isConfigured]_vars
    /\ [](~isConfigured =>
            \A payload \in CreatePayloads \cup MailRows :
                \A o \in CreateDataOutcomes(payload) :
                    /\ o.sends = 0
                    /\ o.welcomeSent = welcomeSent
                    /\ ~o.ok => \/ o.fault
                                \/ payload.name = NULL
                                \/ payload.email \in Emails(store))

\* with an admin address but an unready sender, a record was created, an
\* upload was answered with its row imported and a scheduled job ran, and
\* nothing was handed to the transport
C19_Witness ==
    /\ ~isConfigured
    /\ adminEmail
    /\ served = 1
    /\ ticks = 1
    /\ Cardinality(DOMAIN store) = 2
    /\ \E p \in ImportIds : Replied(p) /\ result[p].imported = 1
    /\ HandedOver = {}

\* C20: every store call returning, an importData invocation that has
\* started returns, even if the transport never settles a send it
\* dispatched; and whenever the loop is at its head the next row can be
\* taken up (or the invocation can return), whatever sends are outstanding.
C20_ImportReturns ==
    /\ \A p \in ImportIds :
           (pc[p] \in {"loop", "lookup", "save"}) ~> (Returned(p) \/ Replied(p))
    /\ [](\A p \in ImportIds : pc[p] = "loop" => ENABLED ImportNext(p))

\* importData has returned with both rows imported while both welcome sends
\* are still with the transport
C20_Witness ==
    \E p \in ImportIds :
        /\ Returned(p)
        /\ Len(log[p]) = 2
        /\ \A k \in 1..2 :
               /\ log[p][k].sends = 1
               /\ [to |-> "employee", ref |-> log[p][k].newId] \in InTransport
        /\ settled = {}

(***************************************************************************)
(* The scheduled jobs.                                                     *)
(***************************************************************************)
\* C21: the callback of every scheduled job (daily report, birthday
\* reminder, weekly backup reminder) leaves the store as it was, records and
\* id sequence alike, whether it reaches its send or ends in its catch block
\* or without a send.
C21_JobsOnlyRead ==
    [][ticks' # ticks => (store' = store /\ nextId' = nextId)]_vars

\* a job ran over a store that holds a record and handed its message over
C21_Witness ==
    /\ ticks = 1
    /\ store # <<>>
    /\ adminSent # <<>>
    /\ adminSent[Len(adminSent)] \in CronJobs

C23_NotFound ==
    /\ reply.route \in {"GET", "PUT"}
    /\ ~reply.fault
    /\ reply.route = "PUT" => "updated" \in DOMAIN reply
    /\ reply.id \notin DOMAIN reply.after

\* C23: when the employee is not found, GET and PUT /employees/:id answer
\* with the envelope {responseCode: 404, responseDesc: "Failed", message:
\* "Employee not found", data: null}, sent with HTTP status 404.
C23_NotFoundEnvelope ==
    C23_NotFound =>
        /\ reply.status = 404
        /\ reply.responseCode = reply.status
        /\ reply.responseDesc = "Failed"
        /\ reply.message = "Employee not found"
        /\ reply.data = <<>>

(***************************************************************************)
(* The order of importData's store calls.                                  *)
(***************************************************************************)
\* C24: importData processes its rows one after the other: at most one of
\* its store calls is in flight at any time, every store call of the rows it
\* has finished with has resolved or failed, a call in flight belongs to the
\* row after those, and a row's insert is issued only after its lookup has
\* resolved.
C24_OneCallInFlight ==
    \A p \in ImportIds :
        /\ cur[p].pending <= 1
        /\ \A k \in Processed(p) :
               /\ log[p][k].pending = 0
               /\ log[p][k].lookups <= 1
               /\ log[p][k].inserts <= log[p][k].lookups
        /\ cur[p].pending = 1 =>
               /\ Len(log[p]) = idx[p]
               /\ idx[p] < Len(data[p])
               /\ cur[p].lookups + cur[p].inserts <= 1
        /\ cur[p].inserts = 0

\* the insert of the second row is in flight; the lookup and the insert of
\* the first row and the lookup of the second have resolved
C24_Witness ==
    \E p \in ImportIds :
        /\ pc[p] = "save"
        /\ idx[p] = 1
        /\ cur[p].pending = 1
        /\ cur[p].lookups = 1
        /\ log[p][1].lookups = 1 /\ log[p][1].inserts = 1 /\ log[p][1].pending = 0

(***************************************************************************)
(* The reason reported for a duplicate email.                              *)
(***************************************************************************)
\* C25: a row that importData rejects because a stored record holds its
\* email (found by the row's lookup, or by the unique constraint at its
\* insert) is reported with "Email already exists" and not with the store's
\* constraint-violation message, however the steps of two importData
\* invocations interleave.
C25_FriendlyDuplicateError ==
    \A p \in DOMAIN log : \A k \in 1..Len(log[p]) :
        ( /\ log[p][k].newId = 0
          /\ ~log[p][k].fault
          /\ log[p][k].present \/ log[p][k].thrown = MSG_DUPLICATE_KEY )
        => /\ FailedWith(p, k, "Email already exists")
           /\ \A j \in ErrorsOfRow(p, k) : result[p].errors[j].error # MSG_DUPLICATE_KEY

(***************************************************************************)
(* Records created by an import.                                           *)
(***************************************************************************)
\* the ids of the records the rows counted as imported created
C26_Created(p) == {log[p][k].newId : k \in {j \in Processed(p) : log[p][j].newId # 0}}

\* C26: nothing else changing the store, the store holds after importData
\* as many records as before plus `imported`.  Every step of importData
\* adds to the store exactly as many records as it adds to imported, and a
\* step that counts a row as failed leaves the store as it was; the rows
\* counted as imported created one record each, under distinct ids, and
\* those records are in the store.
C26_OneRecordPerImportedRow ==
    /\ [](\A p \in ImportIds :
            /\ Cardinality(C26_Created(p)) = result[p].imported
            /\ C26_Created(p) \subseteq DOMAIN store
            /\ result[p].failed = Cardinality({k \in Processed(p) : log[p][k].newId = 0}))
    /\ [][\A p \in ImportIds :
            /\ Cardinality(DOMAIN store') - Cardinality(DOMAIN store)
                   = result'[p].imported - result[p].imported
            /\ result'[p].failed > result[p].failed => store' = store
            /\ DOMAIN store \subseteq DOMAIN store']_vars

\* an upload of two rows over a store that held one record has returned
\* with one row imported and one failed, and the store holds two records
C26_Witness ==
    \E p \in ImportIds :
        /\ Returned(p)
        /\ Len(data[p]) = 2
        /\ result[p].imported = 1
        /\ result[p].failed = 1
        /\ 1 \notin C26_Created(p)
        /\ Cardinality(DOMAIN store) = 2

(***************************************************************************)
(* The welcome message.                                                    *)
(***************************************************************************)
\* C27: a welcome message is handed over only by the step in which a
\* record's save succeeds, for that record, and at most once per record.  A
\* createData whose save fails hands nothing over, and neither does an
\* import row that fails: at its save, at the validation or at the duplicate
\* check.
C27_WelcomeOnlyAfterSave ==
    /\ [](/\ \A id \in DOMAIN welcomeSent : welcomeSent[id] = 1 /\ id \in DOMAIN store
          /\ \A p \in ImportIds :
                /\ cur[p].sends = 0
                /\ \A k \in Processed(p) :
                      /\ log[p][k].sends <= 1
                      /\ log[p][k].newId = 0 => log[p][k].sends = 0
                      /\ log[p][k].sends = 1 => log[p][k].newId \in DOMAIN welcomeSent
          /\ \A payload \in CreatePayloads \cup MailRows :
                \A o \in CreateDataOutcomes(payload) :
                    ~o.ok => (o.sends = 0 /\ o.welcomeSent = welcomeSent))
    /\ [][welcomeSent' # welcomeSent =>
            \E id \in DOMAIN store' \ DOMAIN store :
                /\ id \notin DOMAIN welcomeSent
                /\ welcomeSent' = Sent(welcomeSent, id)]_vars

\* a createData request and an import row each created a record, and one
\* welcome message was handed over for each of the two records
C27_Witness ==
    /\ Cardinality(DOMAIN store) = 2
    /\ DOMAIN welcomeSent = DOMAIN store
    /\ served = 1
    /\ \E p \in ImportIds : Replied(p) /\ result[p].imported = 1 /\ log[p][1].sends = 1

(***************************************************************************)
(* The readiness flag of the sender.                                       *)
(***************************************************************************)
\* C28: the readiness flag is true only if the transporter was created,
\* which takes host, user and password all set.  Once the verification has
\* reported an error the flag is false and stays false, and from then on no
\* step hands a message to the transport.
C28_FlagFollowsVerification ==
    /\ [](/\ isConfigured => (smtp.transporter /\ smtp.host /\ smtp.user /\ smtp.pass)
          /\ smtp.transporter => (smtp.host /\ smtp.user /\ smtp.pass)
          /\ smtp.verify = "failed" => ~isConfigured)
    /\ [][smtp.verify = "failed" =>
            /\ smtp'.verify = "failed"
            /\ ~isConfigured'
            /\ welcomeSent' = welcomeSent
            /\ adminSent' = adminSent]_vars

\* the backup reminder was handed over while the verification was under
\* way; after it had failed a record was created and no welcome message was
\* handed over for it
C28_Witness ==
    /\ smtp.verify = "failed"
    /\ adminSent = <<"weekly-backup-reminder">>
    /\ Cardinality(DOMAIN store) = 1
    /\ welcomeSent = <<>>

(***************************************************************************)
(* The registry of scheduled jobs.                                         *)
(***************************************************************************)
\* C29: after initializeJobs exactly daily-report, birthday-reminder and
\* weekly-backup-reminder are active; stopJob(n) returns true and removes n
\* if n is registered, and returns false and changes nothing if it is not;
\* restartJob(n) returns false once stopJob(n) or stopAllJobs has removed n;
\* after stopAllJobs the registry is empty and every task that was scheduled
\* is stopped.  At any time the tasks running are those of the registry.
C29_RegistryLifecycle ==
    LET last == cron.last
        active == GetActiveJobs(cron)
    IN  /\ last.op = "initializeJobs" =>
               /\ active = {"daily-report", "birthday-reminder", "weekly-backup-reminder"}
               /\ Len(cron.tasks) = 3
               /\ \A t \in DOMAIN cron.tasks : cron.tasks[t] = "running"
        /\ last.op = "stopJob" =>
               /\ last.returned <=> last.registered
               /\ active = last.before \ {last.name}
        /\ (last.op = "restartJob" /\ last.name \in cron.stopped) => ~last.returned
        /\ last.op = "restartJob" => (last.returned <=> last.name \in active)
        /\ last.op = "stopAllJobs" =>
               /\ active = {}
               /\ \A t \in DOMAIN cron.tasks : cron.tasks[t] = "stopped"
        /\ \A t \in DOMAIN cron.tasks :
               cron.tasks[t] = "running" <=> \E n \in active : cron.jobs[n] = t
        /\ active \cap cron.stopped = {}

\* daily-report was stopped, and a later restartJob("daily-report") returned
\* false; the other two jobs are active
C29_Witness ==
    /\ cron.last.op = "restartJob"
    /\ cron.last.name = "daily-report"
    /\ "daily-report" \in cron.stopped
    /\ ~cron.last.returned
    /\ GetActiveJobs(cron) = {"birthday-reminder", "weekly-backup-reminder"}

(***************************************************************************)
(* Shutdown.                                                               *)
(***************************************************************************)
\* position of the first occurrence of an event, 0 if it has not happened
FirstEvent(e) ==
    IF \E k \in DOMAIN proc.events : proc.events[k] = e
    THEN CHOOSE k \in DOMAIN proc.events :
             /\ proc.events[k] = e
             /\ \A j \in 1..(k - 1) : proc.events[j] # e
    ELSE 0

C30_Ordered ==
    /\ \A k \in DOMAIN proc.events :
           /\ proc.events[k] = "close" => (k > 1 /\ proc.events[k - 1] = "stopAllJobs")
           /\ proc.events[k] = "destroy" => (0 < FirstEvent("closed") /\ FirstEvent("closed") < k)
           /\ proc.events[k] = "closed" => (0 < FirstEvent("close") /\ FirstEvent("close") < k)
    /\ proc.server # "listening" =>
           /\ GetActiveJobs(cron) = {}
           /\ \A t \in DOMAIN cron.tasks : cron.tasks[t] = "stopped"
    /\ proc.db = "destroyed" => proc.server = "closed"
    /\ proc.exited # <<>> =>
           /\ proc.exited = <<0>>
           /\ proc.server = "closed"
           /\ proc.events[Len(proc.events)] \in {"destroyed", "destroy failed"}

\* C30: on SIGINT or SIGTERM, a first or a second one, the cron jobs are
\* stopped before the server is told to close, the connection is destroyed
\* only after the server has closed, the process exits with code 0 whether
\* destroying succeeded or failed, and once the server has closed the
\* process does exit.
C30_GracefulShutdown ==
    /\ []C30_Ordered
    /\ (proc.server = "closed") ~> (proc.exited # <<>>)

\* two signals were received, the second while the server was closing;
\* destroying the connection failed and the process exited with code 0
C30_Witness ==
    /\ Len(SelectSeq(proc.events, LAMBDA e : e \in Signals)) = 2
    /\ \E k \in DOMAIN proc.events :
           /\ proc.events[k] \in Signals
           /\ FirstEvent("close") < k
           /\ k < FirstEvent("closed")
    /\ proc.events[Len(proc.events)] = "destroy failed"
    /\ proc.exited = <<0>>

====
